---- MODULE Spec2Model ----
(***************************************************************************)
(* Promo Alerts: the RSS monitor of app/main.py (class PromoAlertsMonitor) *)
(* with its relevance filter and its deal scoring.                         *)
(*                                                                         *)
(* Texts are TLA+ strings and are matched as the Python code matches them: *)
(* by substring, after normalize_text.  Amounts of money are integers in   *)
(* centavos (R$ 1.234,56 is 123456), so that the two decimals of a parsed  *)
(* price are kept.  Python dicts are functions whose DOMAIN is the set of  *)
(* keys present; d.get(k, default) is Get(d, k, default).                  *)
(***************************************************************************)
EXTENDS Integers, Sequences, FiniteSets, TLC

VARIABLES
    filters_config,     \* self.filters_config, loaded by the constructor
    seen_file,          \* the ids stored in data/seen.json
    seen_posts,         \* self.seen_posts
    new_posts,          \* self.new_posts
    filtered_posts,     \* self.filtered_posts
    rejected_posts,     \* self.rejected_posts
    rejected_count,     \* self._rejected_count_per_feed (no key: feed not counted yet)
    notices,            \* rejection notices printed so far: feed -> [detail, summary]
    pc,                 \* where main() / monitor_feeds stands
    feeds,              \* the feed list of feeds.yml, as load_feeds returned it
    feed_i,             \* index of the feed being fetched (the loop of monitor_feeds)
    attempt,            \* `attempt` of the retry loop of fetch_feed
    entries,            \* feed.entries of the feed being fetched
    entry_k,            \* entries of feed.entries[:5] consumed so far
    posts,              \* the local list `posts` of fetch_feed
    run,                \* number of the current run of main()
    store_shared,       \* every run so far started from what the previous one held
    evaluated,          \* history: post id -> number of times apply_filters got it
    last_call,          \* history: the last call of a method and what it returned
    price_checker,      \* whether self.price_checker is a FlightPriceChecker (not None)
    price_cache,        \* self._price_cache: hour key -> market analysis
    now_hour,           \* the hour datetime.now() is in, counted from the hour of __init__
    fetches,            \* history: hour key -> calls of get_complete_sp_recife_analysis
    uses,               \* history: hour key -> enrichments that looked the analysis up
    outbox,             \* history: save_seen_posts and the notifications of the run, in order
    checker_call,       \* a call of get_complete_sp_recife_analysis and the requests it sent
    score_promo,        \* the promotion price handed to the deal scoring (centavos)
    score_market,       \* the market price handed to the deal scoring (centavos)
    deal                \* result of the deal scoring

monitor_vars == <<filters_config, seen_file, seen_posts, new_posts, filtered_posts,
                  rejected_posts, rejected_count, notices, pc, feeds, feed_i, attempt,
                  entries, entry_k,
                  posts, run, store_shared, evaluated, last_call,
                  price_checker, price_cache, now_hour, fetches, uses, outbox,
                  checker_call>>
price_vars == <<price_checker, price_cache, now_hour, fetches, uses, checker_call>>
score_vars == <<score_promo, score_market, deal>>
vars == <<monitor_vars, score_vars>>

(***************************************************************************)
(* Python dicts and strings                                                *)
(***************************************************************************)
\* d.get(k, default)
Get(d, k, default) == IF k \in DOMAIN d THEN d[k] ELSE default

EmptyDict == <<>>

\* the characters of s, as a set of one-character strings
CharsOf(s) == {SubSeq(s, i, i) : i \in 1..Len(s)}

\* pat in s
Contains(s, pat) ==
    \/ Len(pat) = 0
    \/ \E i \in 1..(Len(s) - Len(pat) + 1) : SubSeq(s, i, i + Len(pat) - 1) = pat

\* s.endswith(suffix)
EndsWith(s, suffix) ==
    /\ Len(suffix) <= Len(s)
    /\ (Len(suffix) = 0 \/ SubSeq(s, Len(s) - Len(suffix) + 1, Len(s)) = suffix)

UpperChars == "ABCDEFGHIJKLMNOPQRSTUVWXYZÃÇÉÕÁ"
LowerChars == "abcdefghijklmnopqrstuvwxyzãçéõá"

\* str.lower() on one character
LowerMap ==
    [c \in CharsOf(UpperChars) |->
        LET i == CHOOSE j \in 1..Len(UpperChars) : SubSeq(UpperChars, j, j) = c
        IN  SubSeq(LowerChars, i, i)]

RECURSIVE MapChars(_, _)
MapChars(f, s) ==
    IF Len(s) = 0 THEN ""
    ELSE LET c == SubSeq(s, 1, 1)
         IN  (IF c \in DOMAIN f THEN f[c] ELSE c) \o MapChars(f, SubSeq(s, 2, Len(s)))

\* str.lower()
Lower(s) == MapChars(LowerMap, s)

Whitespace == {" ", "\t", "\n"}

RECURSIVE LStrip(_)
LStrip(s) ==
    IF Len(s) > 0 /\ SubSeq(s, 1, 1) \in Whitespace
    THEN LStrip(SubSeq(s, 2, Len(s))) ELSE s

RECURSIVE RStrip(_)
RStrip(s) ==
    IF Len(s) > 0 /\ SubSeq(s, Len(s), Len(s)) \in Whitespace
    THEN RStrip(SubSeq(s, 1, Len(s) - 1)) ELSE s

\* str.strip()
Strip(s) == LStrip(RStrip(s))

(***************************************************************************)
(* normalize_text: NFD, drop the combining marks (category Mn), lower(),   *)
(* strip().  NFD decomposes a precomposed letter into its base letter and  *)
(* one combining mark and leaves every other character, a combining mark   *)
(* included, as it is.                                                     *)
(***************************************************************************)
ComposedChars == "ãçéõáÃÇÉÕÁ"
BaseChars     == "aceoaACEOA"
\* the marks of the letters above: tilde, cedilla, acute, tilde, acute, twice.
\* A string of this module holds no combining character: '¨', '¸' and '´'
\* stand for U+0303, U+0327 and U+0301.
MarkChars     == "¨¸´¨´¨¸´¨´"

\* unicodedata.normalize('NFD', c) for one precomposed character
NFDMap ==
    [c \in CharsOf(ComposedChars) |->
        LET i == CHOOSE j \in 1..Len(ComposedChars) : SubSeq(ComposedChars, j, j) = c
        IN  SubSeq(BaseChars, i, i) \o SubSeq(MarkChars, i, i)]

\* ''.join(c for c in text if unicodedata.category(c) != 'Mn')
RECURSIVE RemoveMarks(_)
RemoveMarks(s) ==
    IF Len(s) = 0 THEN ""
    ELSE (IF SubSeq(s, 1, 1) \in CharsOf(MarkChars) THEN "" ELSE SubSeq(s, 1, 1))
         \o RemoveMarks(SubSeq(s, 2, Len(s)))

normalize_text_strip_first(text) ==
    IF Len(text) = 0 THEN ""
    ELSE Lower(RemoveMarks(MapChars(NFDMap, Strip(text))))

\* lines 108-116
normalize_text(text) ==
    IF Len(text) = 0 THEN ""
    ELSE Strip(Lower(RemoveMarks(MapChars(NFDMap, text))))

(***************************************************************************)
(* The filter configuration (filters.yml).  A section or a key that the    *)
(* file does not give is absent from the dict.                             *)
(***************************************************************************)
MilesKeywordLists == {<<>>, <<"Milhas", "smiles", "pontuação">>}

EnabledParts == {EmptyDict, [enabled |-> FALSE], [enabled |-> TRUE]}

KeywordsParts ==
    {EmptyDict, [keywords |-> EmptyDict], [keywords |-> [enabled |-> FALSE]]}
    \cup {[keywords |-> [enabled |-> TRUE, miles_keywords |-> m]] : m \in MilesKeywordLists}
    \cup {[keywords |-> [enabled |-> TRUE]]}

\* the routes, price and airlines sections
OtherParts ==
    { EmptyDict,
      [routes   |-> [enabled |-> TRUE, include |-> <<"São Paulo -> Recife">>,
                     exclude |-> <<"Salvador">>],
       price    |-> [enabled |-> TRUE, domestic_max |-> 80000, international_max |-> 250000],
       airlines |-> [enabled |-> TRUE, include |-> <<"GOL">>, exclude |-> <<"Latam">>]],
      [airlines |-> [enabled |-> TRUE, include |-> <<>>, exclude |-> <<"azul">>]] }

AdvancedParts ==
    { EmptyDict,
      [advanced |-> [log_rejected_posts |-> TRUE]],
      [advanced |-> [log_rejected_posts |-> FALSE, min_posts_to_notify |-> 2]] }

\* every filters.yml considered
FiltersConfigs ==
    {e @@ k @@ o @@ a : e \in EnabledParts, k \in KeywordsParts,
                        o \in OtherParts, a \in AdvancedParts}

(***************************************************************************)
(* check_keyword_filter                                                    *)
(***************************************************************************)
\* f"{title} {summary}"
FullText(title, summary) == title \o " " \o summary

\* 1. the Recife / PE / REC indicator
has_recife(normalized_text) ==
    LET padded == " " \o normalized_text \o " "
    IN  \/ Contains(normalized_text, normalize_text("recife"))
        \/ Contains(normalized_text, normalize_text("pernambuco"))
        \/ Contains(padded, " rec ")
        \/ Contains(normalized_text, "-rec ")
        \/ Contains(normalized_text, " rec-")
        \/ Contains(normalized_text, "rec.")
        \/ Contains(normalized_text, "gru-rec")
        \/ Contains(normalized_text, "sp-rec")
        \/ Contains(padded, " pe ")
        \/ Contains(normalized_text, "sp-pe")
        \/ Contains(padded, "para pe ")
        \/ Contains(normalized_text, "destino pe")
        \/ Contains(normalized_text, "rumo pe")

PassagemTerms ==
    <<"passagem", "passagens", "voo", "voos", "viagem", "viagens",
      "azul", "gol", "latam", "guarulhos", "congonhas", "gru", "cgh",
      "voar", "aereo", "aerea", "aereas", "bilhete", "bilhetes">>

\* 2. the flight / travel terms
has_passagem_terms(normalized_text) ==
    \E i \in 1..Len(PassagemTerms) :
        Contains(normalized_text, normalize_text(PassagemTerms[i]))

\* 3. the mileage terms of the configuration
has_miles_terms(keywords_config, normalized_text) ==
    LET miles_keywords == Get(keywords_config, "miles_keywords", <<>>)
    IN  \E i \in 1..Len(miles_keywords) :
            Contains(normalized_text, normalize_text(miles_keywords[i]))

check_keyword_filter_or(config, title, summary) ==
    LET keywords_config == Get(config, "keywords", EmptyDict)
        normalized_text == normalize_text(Lower(FullText(title, summary)))
    IN  IF ~Get(keywords_config, "enabled", FALSE) THEN TRUE
        ELSE \/ has_recife(normalized_text)
             \/ has_passagem_terms(normalized_text)
             \/ has_miles_terms(keywords_config, normalized_text)

check_keyword_filter(config, title, summary) ==
    LET keywords_config == Get(config, "keywords", EmptyDict)
        normalized_text == normalize_text(Lower(FullText(title, summary)))
    IN  IF ~Get(keywords_config, "enabled", FALSE) THEN TRUE
        ELSE /\ has_recife(normalized_text)
             /\ \/ has_passagem_terms(normalized_text)
                \/ has_miles_terms(keywords_config, normalized_text)

(***************************************************************************)
(* check_airline_filter                                                    *)
(***************************************************************************)
check_airline_filter_include_wins(config, title, summary) ==
    LET airlines_config == Get(config, "airlines", EmptyDict)
        full_text == Lower(FullText(title, summary))
        include_airlines == Get(airlines_config, "include", <<>>)
        exclude_airlines == Get(airlines_config, "exclude", <<>>)
    IN  IF ~Get(airlines_config, "enabled", FALSE) THEN TRUE
        ELSE IF Len(include_airlines) > 0
        THEN \E i \in 1..Len(include_airlines) :
                 Contains(full_text, Lower(include_airlines[i]))
        ELSE \A i \in 1..Len(exclude_airlines) :
                 ~Contains(full_text, Lower(exclude_airlines[i]))

check_airline_filter(config, title, summary) ==
    LET airlines_config == Get(config, "airlines", EmptyDict)
        full_text == Lower(FullText(title, summary))
        include_airlines == Get(airlines_config, "include", <<>>)
        exclude_airlines == Get(airlines_config, "exclude", <<>>)
    IN  IF ~Get(airlines_config, "enabled", FALSE) THEN TRUE
        ELSE IF /\ Len(include_airlines) > 0
                /\ \A i \in 1..Len(include_airlines) :
                       ~Contains(full_text, Lower(include_airlines[i]))
             THEN FALSE
        ELSE IF \E i \in 1..Len(exclude_airlines) :
                    Contains(full_text, Lower(exclude_airlines[i]))
             THEN FALSE
        ELSE TRUE

(***************************************************************************)
(* extract_price: the four patterns of price_patterns, tried in order with *)
(* re.findall(pattern, text, re.IGNORECASE); the first match of the first  *)
(* pattern that matches is converted.  A price is None or Some(centavos).  *)
(***************************************************************************)
None == <<>>
Some(v) == <<v>>

Digits == "0123456789"
DigitChars == CharsOf(Digits)

\* s[i-1:i], "" outside of s
At(s, i) == IF i >= 1 /\ i <= Len(s) THEN SubSeq(s, i, i) ELSE ""

IsDigit(c) == c \in DigitChars

DigitValue(c) == (CHOOSE j \in 1..Len(Digits) : SubSeq(Digits, j, j) = c) - 1

\* \s* from position i: the position of the first character that is no whitespace
RECURSIVE SkipSpace(_, _)
SkipSpace(s, i) == IF At(s, i) \in Whitespace THEN SkipSpace(s, i + 1) ELSE i

\* \d{1,3} from position i, greedy: the number of digits taken
LeadingDigits(s, i) ==
    IF ~IsDigit(At(s, i)) THEN 0
    ELSE IF ~IsDigit(At(s, i + 1)) THEN 1
    ELSE IF ~IsDigit(At(s, i + 2)) THEN 2
    ELSE 3

\* (?:\.\d{3})* from position j, greedy: the position after it
RECURSIVE ThousandsEnd(_, _)
ThousandsEnd(s, j) ==
    IF At(s, j) = "." /\ IsDigit(At(s, j + 1)) /\ IsDigit(At(s, j + 2)) /\ IsDigit(At(s, j + 3))
    THEN ThousandsEnd(s, j + 4)
    ELSE j

\* (?:,\d{2})? from position j, greedy: the position after it
CentsEnd(s, j) ==
    IF At(s, j) = "," /\ IsDigit(At(s, j + 1)) /\ IsDigit(At(s, j + 2)) THEN j + 3 ELSE j

\* (\d{1,3}(?:\.\d{3})*(?:,\d{2})?) at position i with nothing required after
\* it: the position after the group, 0 when there is no digit at i
NumberEnd(s, i) ==
    IF LeadingDigits(s, i) = 0 THEN 0
    ELSE CentsEnd(s, ThousandsEnd(s, i + LeadingDigits(s, i)))

\* R\$\s*(number) at position i: <<first, last>> of the group, or <<>>
RealSignAt(s, i) ==
    LET j == SkipSpace(s, i + 2)
    IN  IF At(s, i) \in {"R", "r"} /\ At(s, i + 1) = "$" /\ NumberEnd(s, j) > 0
        THEN <<j, NumberEnd(s, j) - 1>>
        ELSE <<>>

\* the end of the run of digits, '.' and ',' that starts at i
RECURSIVE NumberCharsEnd(_, _)
NumberCharsEnd(s, i) ==
    IF IsDigit(At(s, i)) \/ At(s, i) \in {".", ","} THEN NumberCharsEnd(s, i + 1) ELSE i

\* (number)\s*reais at position i.  What follows the group is whitespace or
\* an 'r', so the group ends where the run of digits, '.' and ',' ends, and
\* the whole run has to be a number.
ReaisAt(s, i) ==
    LET j == NumberCharsEnd(s, i)
        k == SkipSpace(s, j)
    IN  IF /\ IsDigit(At(s, i))
           /\ NumberEnd(SubSeq(s, i, j - 1), 1) = j - i + 1
           /\ k + 4 <= Len(s)
           /\ Lower(SubSeq(s, k, k + 4)) = "reais"
        THEN <<i, j - 1>>
        ELSE <<>>

\* por\s*R\$\s*(number) at position i
PorAt(s, i) ==
    IF i + 2 <= Len(s) /\ Lower(SubSeq(s, i, i + 2)) = "por"
    THEN RealSignAt(s, SkipSpace(s, i + 3))
    ELSE <<>>

\* partir\s+de\s*R\$\s*(number) at position i
PartirAt(s, i) ==
    LET j == SkipSpace(s, i + 6)
    IN  IF /\ i + 5 <= Len(s) /\ Lower(SubSeq(s, i, i + 5)) = "partir"
           /\ j > i + 6
           /\ j + 1 <= Len(s) /\ Lower(SubSeq(s, j, j + 1)) = "de"
        THEN RealSignAt(s, SkipSpace(s, j + 2))
        ELSE <<>>

PatternAt(n, s, i) ==
    CASE n = 1 -> RealSignAt(s, i)
      [] n = 2 -> ReaisAt(s, i)
      [] n = 3 -> PorAt(s, i)
      [] n = 4 -> PartirAt(s, i)

\* re.findall(price_patterns[n], text, re.IGNORECASE)[0], or "" with no match
FirstMatch(n, s) ==
    LET starts == {i \in 1..Len(s) : PatternAt(n, s, i) # <<>>}
    IN  IF starts = {} THEN ""
        ELSE LET i == CHOOSE x \in starts : \A y \in starts : x <= y
                 g == PatternAt(n, s, i)
             IN  SubSeq(s, g[1], g[2])

\* s.replace(a, b) for one character a
RECURSIVE Replace(_, _, _)
Replace(s, a, b) ==
    IF Len(s) = 0 THEN ""
    ELSE (IF SubSeq(s, 1, 1) = a THEN b ELSE SubSeq(s, 1, 1))
         \o Replace(SubSeq(s, 2, Len(s)), a, b)

\* the digits of s read as a natural number
RECURSIVE DigitsValue(_)
DigitsValue(s) ==
    IF Len(s) = 0 THEN 0
    ELSE DigitsValue(SubSeq(s, 1, Len(s) - 1)) * 10 + DigitValue(SubSeq(s, Len(s), Len(s)))

\* float(price_str) of a string of digits with at most one '.', in centavos
FloatCentavos(price_str) ==
    LET dots == {i \in 1..Len(price_str) : SubSeq(price_str, i, i) = "."}
    IN  IF dots = {} THEN DigitsValue(price_str) * 100
        ELSE LET d == CHOOSE i \in dots : TRUE
             IN  DigitsValue(SubSeq(price_str, 1, d - 1)) * 100
                 + DigitsValue(SubSeq(price_str, d + 1, Len(price_str)))

\* lines 136-137
ConvertPrice(matched) == FloatCentavos(Replace(Replace(matched, ".", ""), ",", "."))

RECURSIVE extract_price_from(_, _)
extract_price_from(n, text) ==
    IF n > 4 THEN None
    ELSE IF FirstMatch(n, text) # "" THEN Some(ConvertPrice(FirstMatch(n, text)))
    ELSE extract_price_from(n + 1, text)

extract_price_reais_first(text) ==
    IF Len(text) = 0 THEN None
    ELSE IF FirstMatch(2, text) # "" THEN Some(ConvertPrice(FirstMatch(2, text)))
    ELSE extract_price_from(1, text)

extract_price(text) ==
    IF Len(text) = 0 THEN None ELSE extract_price_from(1, text)

(***************************************************************************)
(* check_route_filter.  What a call does is [returns |-> v] or             *)
(* [raises |-> e]: the unpacking of route.split(' -> ') into two names     *)
(* raises ValueError when the split has more than two parts.               *)
(***************************************************************************)
Returns(v) == [returns |-> v]
Raises(e) == [raises |-> e]

\* s.split(sep), sep not empty
RECURSIVE Split(_, _)
Split(s, sep) ==
    LET hits == {i \in 1..(Len(s) - Len(sep) + 1) : SubSeq(s, i, i + Len(sep) - 1) = sep}
    IN  IF hits = {} THEN <<s>>
        ELSE LET i == CHOOSE x \in hits : \A y \in hits : x <= y
             IN  <<SubSeq(s, 1, i - 1)>> \o Split(SubSeq(s, i + Len(sep), Len(s)), sep)

\* lines 156-167 and 175-185: "raises", or whether the route is mentioned
route_mentioned(route, normalized_text) ==
    IF Contains(route, " -> ")
    THEN LET parts == Split(route, " -> ")
         IN  IF Len(parts) # 2 THEN "raises"
             ELSE IF /\ Contains(normalized_text, normalize_text(parts[1]))
                     /\ Contains(normalized_text, normalize_text(parts[2]))
             THEN "yes" ELSE "no"
    ELSE IF Contains(normalized_text, normalize_text(route)) THEN "yes" ELSE "no"

\* lines 155-170, from the i-th include route on
RECURSIVE include_loop(_, _, _)
include_loop(include_routes, i, normalized_text) ==
    IF i > Len(include_routes) THEN Returns(FALSE)
    ELSE CASE route_mentioned(include_routes[i], normalized_text) = "raises" ->
                  Raises("ValueError")
           [] route_mentioned(include_routes[i], normalized_text) = "yes" -> Returns(TRUE)
           [] OTHER -> include_loop(include_routes, i + 1, normalized_text)

\* lines 174-187, from the i-th exclude route on
RECURSIVE exclude_loop(_, _, _)
exclude_loop(exclude_routes, i, normalized_text) ==
    IF i > Len(exclude_routes) THEN Returns(TRUE)
    ELSE CASE route_mentioned(exclude_routes[i], normalized_text) = "raises" ->
                  Raises("ValueError")
           [] route_mentioned(exclude_routes[i], normalized_text) = "yes" -> Returns(FALSE)
           [] OTHER -> exclude_loop(exclude_routes, i + 1, normalized_text)

check_route_filter_exclude_first(config, title, summary) ==
    LET routes_config == Get(config, "routes", EmptyDict)
        normalized_text == normalize_text(Lower(FullText(title, summary)))
        include_routes == Get(routes_config, "include", <<>>)
        exclude_routes == Get(routes_config, "exclude", <<>>)
    IN  IF ~Get(routes_config, "enabled", FALSE) THEN Returns(TRUE)
        ELSE IF exclude_loop(exclude_routes, 1, normalized_text) # Returns(TRUE)
        THEN exclude_loop(exclude_routes, 1, normalized_text)
        ELSE IF Len(include_routes) > 0
        THEN include_loop(include_routes, 1, normalized_text)
        ELSE Returns(TRUE)

check_route_filter_default_on(config, title, summary) ==
    LET routes_config == Get(config, "routes", EmptyDict)
        normalized_text == normalize_text(Lower(FullText(title, summary)))
        include_routes == Get(routes_config, "include", <<>>)
        exclude_routes == Get(routes_config, "exclude", <<>>)
    IN  IF ~Get(routes_config, "enabled", TRUE) THEN Returns(TRUE)
        ELSE IF Len(include_routes) > 0
        THEN include_loop(include_routes, 1, normalized_text)
        ELSE exclude_loop(exclude_routes, 1, normalized_text)

check_route_filter(config, title, summary) ==
    LET routes_config == Get(config, "routes", EmptyDict)
        normalized_text == normalize_text(Lower(FullText(title, summary)))
        include_routes == Get(routes_config, "include", <<>>)
        exclude_routes == Get(routes_config, "exclude", <<>>)
    IN  IF ~Get(routes_config, "enabled", FALSE) THEN Returns(TRUE)
        ELSE IF Len(include_routes) > 0
        THEN include_loop(include_routes, 1, normalized_text)
        ELSE exclude_loop(exclude_routes, 1, normalized_text)

(***************************************************************************)
(* check_price_filter.  The limits of the configuration are in centavos.   *)
(***************************************************************************)
InternationalWords ==
    <<"internacional", "europa", "eua", "asia", "africa", "oceania",
      "paris", "london", "new york", "tokyo", "madrid", "rome">>

is_international(full_text) ==
    \E i \in 1..Len(InternationalWords) : Contains(Lower(full_text), InternationalWords[i])

check_price_filter_strict(config, title, summary) ==
    LET price_config == Get(config, "price", EmptyDict)
        full_text == FullText(title, summary)
        price == extract_price(full_text)
        max_price == IF is_international(full_text)
                     THEN Get(price_config, "international_max", 250000)
                     ELSE Get(price_config, "domestic_max", 80000)
    IN  IF ~Get(price_config, "enabled", FALSE) THEN TRUE
        ELSE IF price = None THEN TRUE
        ELSE price[1] < max_price

check_price_filter(config, title, summary) ==
    LET price_config == Get(config, "price", EmptyDict)
        full_text == FullText(title, summary)
        price == extract_price(full_text)
        max_price == IF is_international(full_text)
                     THEN Get(price_config, "international_max", 250000)
                     ELSE Get(price_config, "domestic_max", 80000)
    IN  IF ~Get(price_config, "enabled", FALSE) THEN TRUE
        ELSE IF price = None THEN TRUE
        ELSE price[1] <= max_price

(***************************************************************************)
(* Posts with the signals a reader finds in them: whether the text names   *)
(* Recife / Pernambuco / PE / REC, whether it has a flight or travel term, *)
(* and which of the configurable mileage keywords occur in it.             *)
(***************************************************************************)
Cases ==
    { [title |-> "Promoção de passagem para Recife", summary |-> "",
       recife |-> TRUE, flight |-> TRUE, miles |-> {}],
      [title |-> "Promoção de passagem para Salvador", summary |-> "",
       recife |-> FALSE, flight |-> TRUE, miles |-> {}],
      [title |-> "Recife é linda", summary |-> "",
       recife |-> TRUE, flight |-> FALSE, miles |-> {}],
      [title |-> "Milhas em dobro", summary |-> "Resgate no Nordeste: Pernambuco",
       recife |-> TRUE, flight |-> FALSE, miles |-> {"Milhas"}],
      [title |-> "Pontuação extra no cartão", summary |-> "<p>Hotel em Natal</p>",
       recife |-> FALSE, flight |-> FALSE, miles |-> {"pontuação"}],
      [title |-> "GRU-REC por R$ 420,00", summary |-> "",
       recife |-> TRUE, flight |-> TRUE, miles |-> {}],
      [title |-> "Hotel barato", summary |-> "Cupom de desconto",
       recife |-> FALSE, flight |-> FALSE, miles |-> {}],
      [title |-> "AZUL PARA PE", summary |-> "só hoje",
       recife |-> TRUE, flight |-> TRUE, miles |-> {}] }

\* a post handed to apply_filters may or may not carry a feed name
FeedNameParts == {EmptyDict, [feed_name |-> "Melhores Destinos"]}

CallPosts ==
    {[title |-> c.title, summary |-> c.summary] @@ f : c \in Cases, f \in FeedNameParts}

(***************************************************************************)
(* Feed entries, as feedparser hands them to fetch_feed.  An entry may     *)
(* lack an id, a link, a summary.                                          *)
(***************************************************************************)
EntryPromo == [id |-> "1", link |-> "http://md/1", summary |-> "",
               title |-> "Promoção de passagem para Recife"]
EntryHotel == [id |-> "1", title |-> "Hotel barato", description |-> "Cupom de desconto"]
EntryLinkOnly == [link |-> "http://md/2", title |-> " Recife é linda ", summary |-> ""]
EntryTitleOnly == [title |-> "GRU-REC por R$ 420,00"]
EntryNoId == [id |-> "", title |-> "AZUL PARA PE", summary |-> "só hoje"]
EntryFlight == [id |-> "3", title |-> "Voo para Recife por R$ 420,00", summary |-> ""]
EntryFree == [id |-> "4", title |-> "Passagem Recife", summary |-> "taxas R$ 0,00"]

EntryPool == {EntryPromo, EntryHotel, EntryLinkOnly, EntryTitleOnly, EntryNoId,
              EntryFlight, EntryFree}

\* line 393: the id of the post made from an entry
PostId(feed_name, entry) ==
    Strip(feed_name \o ":" \o Get(entry, "id", Get(entry, "link", Get(entry, "title", ""))))

\* lines 413-421: the post made from an entry (the dates are left out)
EntryPost(feed_name, entry) ==
    [id        |-> PostId(feed_name, entry),
     feed_name |-> feed_name,
     title     |-> Strip(Get(entry, "title", "No title")),
     link      |-> Get(entry, "link", ""),
     summary   |-> Get(entry, "summary", Get(entry, "description", ""))]

(***************************************************************************)
(* The keyword verdicts of the texts above, computed once by               *)
(* check_keyword_filter for every keywords section considered.             *)
(***************************************************************************)
KeywordSections == {Get(c, "keywords", EmptyDict) : c \in FiltersConfigs}

PoolTexts ==
    {<<c.title, c.summary>> : c \in Cases}
    \cup {<<EntryPost("", e).title, EntryPost("", e).summary>> : e \in EntryPool}

KeywordVerdicts ==
    [k \in KeywordSections, t \in PoolTexts |->
        check_keyword_filter([keywords |-> k], t[1], t[2])]

\* self.check_keyword_filter(title, summary)
keyword_passed(config, title, summary) ==
    LET k == Get(config, "keywords", EmptyDict)
    IN  IF k \in KeywordSections /\ <<title, summary>> \in PoolTexts
        THEN KeywordVerdicts[k, <<title, summary>>]
        ELSE check_keyword_filter(config, title, summary)

(***************************************************************************)
(* apply_filters: the verdict, and the rate-limited rejection notices.     *)
(* `counts` is self._rejected_count_per_feed; an instance that has no such *)
(* attribute yet behaves as one holding the empty dict.                    *)
(***************************************************************************)
\* d[k] = v
Put(d, k, v) == [x \in DOMAIN d \cup {k} |-> IF x = k THEN v ELSE d[x]]

apply_filters_all(config, counts, post) ==
    IF ~Get(config, "enabled", FALSE) THEN TRUE
    ELSE /\ keyword_passed(config, Get(post, "title", ""), Get(post, "summary", ""))
         /\ check_airline_filter(config, Get(post, "title", ""), Get(post, "summary", ""))

apply_filters_quiet(config, counts, post) ==
    IF ~Get(config, "enabled", FALSE) THEN TRUE
    ELSE \/ keyword_passed(config, Get(post, "title", ""), Get(post, "summary", ""))
         \/ Get(counts, Get(post, "feed_name", "unknown"), 0) >= 4

\* the value apply_filters returns
apply_filters(config, counts, post) ==
    IF ~Get(config, "enabled", FALSE) THEN TRUE
    ELSE keyword_passed(config, Get(post, "title", ""), Get(post, "summary", ""))

\* the condition of line 313: rejected, and the logging flag is set
logs_rejection(config, counts, post) ==
    /\ ~apply_filters(config, counts, post)
    /\ Get(Get(config, "advanced", EmptyDict), "log_rejected_posts", FALSE)

rejected_count_unbounded(config, counts, post) ==
    LET feed_name == Get(post, "feed_name", "unknown")
    IN  IF logs_rejection(config, counts, post)
        THEN Put(counts, feed_name, Get(counts, feed_name, 0) + 1)
        ELSE counts

\* self._rejected_count_per_feed after the call
rejected_count_after(config, counts, post) ==
    LET feed_name == Get(post, "feed_name", "unknown")
        count == Get(counts, feed_name, 0)
    IN  IF ~logs_rejection(config, counts, post) THEN counts
        ELSE IF count < 3 THEN Put(counts, feed_name, count + 1)
        ELSE IF count = 3 THEN Put(counts, feed_name, count + 1)
        ELSE counts

NoNotices == [detail |-> 0, summary |-> 0]

\* what the call prints: a detailed notice for the first 3 rejections of a
\* feed, one summary notice for the fourth, nothing afterwards
notices_after(config, counts, printed, post) ==
    LET feed_name == Get(post, "feed_name", "unknown")
        count == Get(counts, feed_name, 0)
        sofar == Get(printed, feed_name, NoNotices)
    IN  IF ~logs_rejection(config, counts, post) THEN printed
        ELSE IF count < 3
             THEN Put(printed, feed_name, [sofar EXCEPT !.detail = @ + 1])
        ELSE IF count = 3
             THEN Put(printed, feed_name, [sofar EXCEPT !.summary = @ + 1])
        ELSE printed

(***************************************************************************)
(* The state after PromoAlertsMonitor() was constructed, with no seen.json *)
(***************************************************************************)
NoCall == [fn |-> "none"]

\* flight_price_apis.py, lines 17-28: a FlightPriceChecker as constructed, no
\* token yet and no call of get_complete_sp_recife_analysis under way
NoAnalysis ==
    [at |-> "idle", amadeus_token |-> FALSE, flight_offer_requests |-> 0,
     opensky_requests |-> 0, trend_called |-> FALSE, price_data |-> <<>>,
     result |-> <<>>]

Constructed(configs) ==
    /\ filters_config \in configs
    /\ seen_file = {}
    /\ seen_posts = {}
    /\ new_posts = <<>>
    /\ filtered_posts = <<>>
    /\ rejected_posts = <<>>
    /\ rejected_count = EmptyDict
    /\ notices = EmptyDict
    /\ pc = "constructed"
    /\ feeds = <<>>
    /\ feed_i = 0
    /\ attempt = 0
    /\ entries = <<>>
    /\ entry_k = 0
    /\ posts = <<>>
    /\ run = 1
    /\ store_shared = TRUE
    /\ evaluated = EmptyDict
    /\ last_call = NoCall
    /\ price_cache = EmptyDict
    /\ now_hour = 0
    /\ fetches = EmptyDict
    /\ uses = EmptyDict
    /\ outbox = <<>>
    /\ checker_call = NoAnalysis

NoScore ==
    /\ score_promo = 0
    /\ score_market = 0
    /\ deal = [fn |-> "none"]

(***************************************************************************)
(* SpecCalls: one monitor, its methods called directly in any order        *)
(***************************************************************************)
ApplyFiltersCall ==
    \E post \in CallPosts :
        /\ last_call' = [fn |-> "apply_filters", post |-> post, counts |-> rejected_count,
                         result |-> apply_filters(filters_config, rejected_count, post)]
        /\ rejected_count' = rejected_count_after(filters_config, rejected_count, post)
        /\ notices' = notices_after(filters_config, rejected_count, notices, post)
        /\ UNCHANGED <<filters_config, seen_file, seen_posts, new_posts, filtered_posts,
                       rejected_posts, pc, feeds, feed_i, attempt, entries, entry_k, posts, run,
                       store_shared, evaluated, price_vars, outbox, score_vars>>

CheckKeywordFilterCall ==
    \E c \in Cases :
        /\ last_call' = [fn |-> "check_keyword_filter", title |-> c.title,
                         summary |-> c.summary,
                         result |-> keyword_passed(filters_config, c.title, c.summary)]
        /\ UNCHANGED <<filters_config, seen_file, seen_posts, new_posts, filtered_posts,
                       rejected_posts, rejected_count, notices, pc, feeds, feed_i, attempt,
                       entries, entry_k, posts, run, store_shared, evaluated, price_vars, outbox, score_vars>>

CallsInit == Constructed(FiltersConfigs) /\ price_checker = TRUE /\ NoScore

CallsNext ==
    \/ ApplyFiltersCall
    \/ CheckKeywordFilterCall

SpecCalls == CallsInit /\ [][CallsNext]_vars

(***************************************************************************)
(* SpecPredicates: the four predicates and apply_filters called directly,  *)
(* under configurations that give one section each.  The texts carry what  *)
(* a reader finds in them: the places named, the price in centavos, the    *)
(* airlines named, whether an international destination is named.          *)
(***************************************************************************)
PredicateTexts ==
    { [title |-> "Passagens de São Paulo para Recife",
       summary |-> "a partir de R$ 799,00 pela GOL",
       places |-> {"São Paulo", "Recife"}, price |-> Some(79900),
       airlines |-> {"gol"}, international |-> FALSE],
      [title |-> "Recife é linda", summary |-> "",
       places |-> {"Recife"}, price |-> None, airlines |-> {}, international |-> FALSE],
      [title |-> "Voo SAO PAULO - Salvador por R$ 801", summary |-> "Latam e Gol",
       places |-> {"São Paulo", "Salvador"}, price |-> Some(80100),
       airlines |-> {"latam", "gol"}, international |-> FALSE],
      [title |-> "Promoção internacional: Paris",
       summary |-> "2.500,00 reais saindo do Recife, Azul",
       places |-> {"Recife"}, price |-> Some(250000),
       airlines |-> {"azul"}, international |-> TRUE],
      [title |-> "Madrid por R$ 2.500,01", summary |-> "",
       places |-> {}, price |-> Some(250001), airlines |-> {}, international |-> TRUE],
      [title |-> "Hotel barato", summary |-> "Cupom de desconto",
       places |-> {}, price |-> None, airlines |-> {}, international |-> FALSE],
      [title |-> "Natal - Recife R$ 800", summary |-> "",
       places |-> {"Natal", "Recife"}, price |-> Some(80000),
       airlines |-> {}, international |-> FALSE] }

\* routes sections; the last three hold a route with two separators
RoutesParts ==
    { [routes |-> [enabled |-> FALSE, include |-> <<"Salvador">>, exclude |-> <<"Recife">>]],
      [routes |-> [include |-> <<"Salvador">>, exclude |-> <<"Recife">>]],
      [routes |-> [enabled |-> TRUE]],
      [routes |-> [enabled |-> TRUE, include |-> <<"São Paulo -> Recife">>,
                   exclude |-> <<"Recife">>]],
      [routes |-> [enabled |-> TRUE, include |-> <<"Salvador", "Natal -> Recife">>]],
      [routes |-> [enabled |-> TRUE, include |-> <<>>,
                   exclude |-> <<"Salvador", "São Paulo -> Recife">>]],
      [routes |-> [enabled |-> TRUE, exclude |-> <<"natal">>]],
      [routes |-> [enabled |-> TRUE, include |-> <<"São Paulo -> Recife -> Natal">>]],
      [routes |-> [enabled |-> TRUE, include |-> <<"Recife", "Natal -> Recife -> Natal">>,
                   exclude |-> <<"Salvador -> Recife -> Salvador">>]],
      [routes |-> [enabled |-> TRUE, exclude |-> <<"Recife -> São Paulo -> Recife">>]] }

PriceParts ==
    { [price |-> [enabled |-> FALSE, domestic_max |-> 10000, international_max |-> 10000]],
      [price |-> [domestic_max |-> 10000]],
      [price |-> [enabled |-> TRUE]],
      [price |-> [enabled |-> TRUE, domestic_max |-> 80000, international_max |-> 250000]],
      [price |-> [enabled |-> TRUE, domestic_max |-> 79900, international_max |-> 300000]],
      [price |-> [enabled |-> TRUE, domestic_max |-> 90000, international_max |-> 50000]] }

AirlinesParts ==
    { [airlines |-> [enabled |-> FALSE, exclude |-> <<"gol">>]],
      [airlines |-> [include |-> <<"TAP">>]],
      [airlines |-> [enabled |-> TRUE]],
      [airlines |-> [enabled |-> TRUE, include |-> <<"GOL">>, exclude |-> <<"Latam">>]],
      [airlines |-> [enabled |-> TRUE, include |-> <<>>, exclude |-> <<"azul">>]],
      [airlines |-> [enabled |-> TRUE, include |-> <<"Azul", "Gol">>]] }

PredicateConfigs ==
    {[enabled |-> TRUE] @@ part :
        part \in {EmptyDict} \cup RoutesParts \cup PriceParts \cup AirlinesParts
                 \cup {[keywords |-> [enabled |-> FALSE]],
                       [keywords |-> [enabled |-> TRUE, miles_keywords |-> <<"milhas">>]]}}

\* everything but last_call and the rejection notices
call_frame == <<filters_config, seen_file, seen_posts, new_posts, filtered_posts,
                rejected_posts, pc, feeds, feed_i, attempt, entries, entry_k, posts, run,
                store_shared, evaluated, price_vars, outbox, score_vars>>

CheckRouteFilterCall ==
    \E t \in PredicateTexts :
        /\ last_call' = [fn |-> "check_route_filter", title |-> t.title,
                         summary |-> t.summary,
                         did |-> check_route_filter(filters_config, t.title, t.summary)]
        /\ UNCHANGED <<call_frame, rejected_count, notices>>

CheckPriceFilterCall ==
    \E t \in PredicateTexts :
        /\ last_call' = [fn |-> "check_price_filter", title |-> t.title,
                         summary |-> t.summary,
                         result |-> check_price_filter(filters_config, t.title, t.summary)]
        /\ UNCHANGED <<call_frame, rejected_count, notices>>

CheckAirlineFilterCall ==
    \E t \in PredicateTexts :
        /\ last_call' = [fn |-> "check_airline_filter", title |-> t.title,
                         summary |-> t.summary,
                         result |-> check_airline_filter(filters_config, t.title, t.summary)]
        /\ UNCHANGED <<call_frame, rejected_count, notices>>

CheckKeywordFilterOn ==
    \E t \in PredicateTexts :
        /\ last_call' = [fn |-> "check_keyword_filter", title |-> t.title,
                         summary |-> t.summary,
                         result |-> keyword_passed(filters_config, t.title, t.summary)]
        /\ UNCHANGED <<call_frame, rejected_count, notices>>

ApplyFiltersOn ==
    \E t \in PredicateTexts :
        LET post == [title |-> t.title, summary |-> t.summary, feed_name |-> "Melhores Destinos"]
        IN  /\ last_call' = [fn |-> "apply_filters", post |-> post, counts |-> rejected_count,
                             result |-> apply_filters(filters_config, rejected_count, post)]
            /\ rejected_count' = rejected_count_after(filters_config, rejected_count, post)
            /\ notices' = notices_after(filters_config, rejected_count, notices, post)
            /\ UNCHANGED call_frame

PredicatesInit == Constructed(PredicateConfigs) /\ price_checker = TRUE /\ NoScore

PredicatesNext ==
    \/ CheckRouteFilterCall
    \/ CheckPriceFilterCall
    \/ CheckAirlineFilterCall
    \/ CheckKeywordFilterOn
    \/ ApplyFiltersOn

SpecPredicates == PredicatesInit /\ [][PredicatesNext]_vars

(***************************************************************************)
(* SpecText: normalize_text, extract_price or check_keyword_filter called   *)
(* once, on a text                                                         *)
(***************************************************************************)
\* the longest text handed to normalize_text
MaxLen == 3

\* a plain letter, precomposed letters, a capital, a space and a combining mark
TextAlphabet == {"a", "É", "ã", " ", "´", "R"}

RECURSIVE StringsUpTo(_)
StringsUpTo(n) ==
    IF n = 0 THEN {""}
    ELSE LET shorter == StringsUpTo(n - 1)
         IN  shorter \cup {t \o c : t \in shorter, c \in TextAlphabet}

NormalizeTexts == StringsUpTo(MaxLen)

\* texts with the price a reader of the four patterns finds in them
PriceTexts ==
    { [text |-> "R$ 1.234,56", price |-> Some(123456)],
      [text |-> "a partir de R$ 234,56", price |-> Some(23456)],
      [text |-> "no price here", price |-> None],
      [text |-> "", price |-> None],
      [text |-> "Voo por R$ 99 ou 1.000 reais", price |-> Some(9900)],
      [text |-> "120 reais ida, volta R$ 80,50", price |-> Some(8050)],
      [text |-> "R$ 10 e R$ 20", price |-> Some(1000)],
      [text |-> "ida 300 reais, volta 250 reais", price |-> Some(30000)],
      [text |-> "1234 REAIS", price |-> Some(23400)],
      [text |-> "r$5", price |-> Some(500)],
      [text |-> "R$ 1.23", price |-> Some(100)],
      [text |-> "R$ 12,5", price |-> Some(1200)],
      [text |-> "R$ grátis", price |-> None],
      [text |-> "partir de 90", price |-> None] }

\* titles, with whether 'rec' and 'pe' occur in them only inside longer words
\* (no 'recife', no 'pernambuco', no token of their own, no listed compound)
RecifeTexts ==
    { [title |-> "Passagens com destino Peru", inside_only |-> TRUE],
      [title |-> "Voo SP-Pequim em promoção", inside_only |-> TRUE],
      [title |-> "Voo rumo Peru", inside_only |-> TRUE],
      [title |-> "Voo para Pequim", inside_only |-> TRUE],
      [title |-> "Passagens com recorde de preço", inside_only |-> TRUE],
      [title |-> "Passagem para Quebec", inside_only |-> TRUE],
      [title |-> "Voo GRU-REC", inside_only |-> FALSE],
      [title |-> "Passagem para PE", inside_only |-> FALSE],
      [title |-> "Voo SP-PE", inside_only |-> FALSE],
      [title |-> "Viagem a Recife", inside_only |-> FALSE],
      [title |-> "Voo para Salvador", inside_only |-> FALSE] }

NormalizeTextCall ==
    \E text \in NormalizeTexts :
        /\ last_call = NoCall
        /\ last_call' = [fn |-> "normalize_text", text |-> text,
                         result |-> normalize_text(text),
                         again |-> normalize_text(normalize_text(text))]
        /\ UNCHANGED <<call_frame, rejected_count, notices>>

NormalizeNoneCall ==
    /\ last_call = NoCall
    /\ last_call' = [fn |-> "normalize_text(None)", result |-> normalize_text(None)]
    /\ UNCHANGED <<call_frame, rejected_count, notices>>

ExtractPriceCall ==
    \E t \in PriceTexts :
        /\ last_call = NoCall
        /\ last_call' = [fn |-> "extract_price", text |-> t.text, price |-> t.price,
                         result |-> extract_price(t.text)]
        /\ UNCHANGED <<call_frame, rejected_count, notices>>

CheckKeywordFilterText ==
    \E t \in RecifeTexts :
        /\ last_call = NoCall
        /\ last_call' = [fn |-> "check_keyword_filter", title |-> t.title,
                         inside_only |-> t.inside_only,
                         has_recife |-> has_recife(normalize_text(Lower(FullText(t.title, "")))),
                         result |-> check_keyword_filter(filters_config, t.title, "")]
        /\ UNCHANGED <<call_frame, rejected_count, notices>>

TextInit ==
    /\ Constructed({[enabled |-> TRUE, keywords |-> [enabled |-> TRUE]]})
    /\ price_checker = TRUE
    /\ NoScore

TextNext ==
    \/ NormalizeTextCall
    \/ NormalizeNoneCall
    \/ ExtractPriceCall
    \/ CheckKeywordFilterText

SpecText == TextInit /\ [][TextNext]_vars

(***************************************************************************)
(* Python floats are IEEE-754 doubles.  A positive double is m * 2^e with  *)
(* a mantissa 2^52 <= m < 2^53, written [m |-> limbs, e |-> exponent];     *)
(* zero is DoubleZero.  A natural number of any size is a sequence of      *)
(* limbs in base 2^15, least significant first, without leading zeros.    *)
(* Every operation rounds to nearest, ties to even.                        *)
(***************************************************************************)
LimbBase == 32768
LimbBits == 15
MantissaBits == 53

RECURSIVE Pow2(_)
Pow2(k) == IF k = 0 THEN 1 ELSE 2 * Pow2(k - 1)

RECURSIVE BigNorm(_)
BigNorm(x) ==
    IF Len(x) > 0 /\ x[Len(x)] = 0 THEN BigNorm(SubSeq(x, 1, Len(x) - 1)) ELSE x

RECURSIVE BigFromInt(_)
BigFromInt(n) == IF n = 0 THEN <<>> ELSE <<n % LimbBase>> \o BigFromInt(n \div LimbBase)

RECURSIVE BigToInt(_)
BigToInt(x) == IF Len(x) = 0 THEN 0 ELSE x[1] + LimbBase * BigToInt(SubSeq(x, 2, Len(x)))

RECURSIVE BigAddCarry(_, _, _)
BigAddCarry(x, y, carry) ==
    IF Len(x) = 0 /\ Len(y) = 0 THEN (IF carry = 0 THEN <<>> ELSE <<carry>>)
    ELSE LET a == IF Len(x) = 0 THEN 0 ELSE x[1]
             b == IF Len(y) = 0 THEN 0 ELSE y[1]
             t == a + b + carry
         IN  <<t % LimbBase>>
             \o BigAddCarry(SubSeq(x, 2, Len(x)), SubSeq(y, 2, Len(y)), t \div LimbBase)

BigAdd(x, y) == BigAddCarry(x, y, 0)

\* x * k for 0 <= k < 2^15
RECURSIVE BigMulSmallCarry(_, _, _)
BigMulSmallCarry(x, k, carry) ==
    IF Len(x) = 0 THEN (IF carry = 0 THEN <<>> ELSE <<carry>>)
    ELSE LET t == x[1] * k + carry
         IN  <<t % LimbBase>> \o BigMulSmallCarry(SubSeq(x, 2, Len(x)), k, t \div LimbBase)

BigMulSmall(x, k) == BigNorm(BigMulSmallCarry(x, k, 0))

RECURSIVE BigMul(_, _)
BigMul(x, y) ==
    IF Len(y) = 0 \/ Len(x) = 0 THEN <<>>
    ELSE LET rest == BigMul(x, SubSeq(y, 2, Len(y)))
         IN  BigAdd(BigMulSmall(x, y[1]), IF Len(rest) = 0 THEN <<>> ELSE <<0>> \o rest)

\* <<x div d, x mod d>> for 0 < d < 2^15
RECURSIVE BigDivSmall(_, _)
BigDivSmall(x, d) ==
    IF Len(x) = 0 THEN <<(<<>>), 0>>
    ELSE LET high == BigDivSmall(SubSeq(x, 2, Len(x)), d)
             t == high[2] * LimbBase + x[1]
         IN  <<BigNorm(<<t \div d>> \o high[1]), t % d>>

RECURSIVE BitsOf(_)
BitsOf(n) == IF n = 0 THEN 0 ELSE 1 + BitsOf(n \div 2)

BigBitLength(x) == IF Len(x) = 0 THEN 0 ELSE (Len(x) - 1) * LimbBits + BitsOf(x[Len(x)])

ZeroLimbs(n) == [i \in 1..n |-> 0]

\* x * 2^k
BigShiftLeft(x, k) ==
    IF Len(x) = 0 THEN <<>>
    ELSE ZeroLimbs(k \div LimbBits) \o BigMulSmall(x, Pow2(k % LimbBits))

\* x div 2^k
BigShiftRight(x, k) ==
    LET whole == k \div LimbBits
    IN  IF whole >= Len(x) THEN <<>>
        ELSE BigDivSmall(SubSeq(x, whole + 1, Len(x)), Pow2(k % LimbBits))[1]

DoubleZero == [m |-> <<>>, e |-> 0]

\* the double nearest to (x + f) * 2^e, where 0 <= f < 1 and `inexact` tells
\* whether f > 0
RoundToDouble(x, e, inexact) ==
    LET bits == BigBitLength(x)
        drop == bits - MantissaBits
    IN  IF bits = 0 THEN DoubleZero
        ELSE IF drop <= 0 THEN [m |-> BigShiftLeft(x, 0 - drop), e |-> e + drop]
        ELSE LET kept == BigShiftRight(x, drop - 1)          \* one bit more than kept
                 half == kept[1] % 2 = 1
                 below == inexact \/ BigShiftLeft(kept, drop - 1) # x
                 m == BigShiftRight(kept, 1)
                 up == half /\ (below \/ m[1] % 2 = 1)
                 r == IF up THEN BigAdd(m, <<1>>) ELSE m
             IN  IF BigBitLength(r) > MantissaBits
                 THEN [m |-> BigShiftRight(r, 1), e |-> e + drop + 1]
                 ELSE [m |-> r, e |-> e + drop]

\* float("n/d") for naturals n and 0 < d < 2^15: the double nearest to n / d
DoubleOfRatio(n, d) ==
    LET q == BigDivSmall(BigShiftLeft(BigFromInt(n), 75), d)
    IN  RoundToDouble(q[1], 0 - 75, q[2] # 0)

\* a * b
DoubleMul(a, b) ==
    IF a = DoubleZero \/ b = DoubleZero THEN DoubleZero
    ELSE RoundToDouble(BigMul(a.m, b.m), a.e + b.e, FALSE)

\* int(a) for a double 0 <= a < 2^31
DoubleToInt(a) ==
    IF a = DoubleZero THEN 0
    ELSE IF a.e >= 0 THEN BigToInt(BigShiftLeft(a.m, a.e))
    ELSE BigToInt(BigShiftRight(a.m, 0 - a.e))

(***************************************************************************)
(* estimate_miles_prices (flight_price_apis.py).  The cash price is in     *)
(* centavos; a program's rate is given in thousandths (0.025 is 25).       *)
(***************************************************************************)
miles_programs ==
    << [name |-> "Smiles (GOL)",    rate |-> 25, min_miles |-> 15000, fees |-> 12000],
       [name |-> "TudoAzul (Azul)", rate |-> 22, min_miles |-> 12000, fees |-> 14000],
       [name |-> "LATAM Pass",      rate |-> 20, min_miles |-> 17000, fees |-> 10000],
       [name |-> "Livelo",          rate |-> 30, min_miles |-> 20000, fees |-> 8000] >>

Max(a, b) == IF a >= b THEN a ELSE b

\* cash_price * config['rate'] * 1000 in doubles, from left to right, then
\* int(), for a cash price that is not negative
converted_magnitude(cash_price, rate) ==
    DoubleToInt(DoubleMul(DoubleMul(DoubleOfRatio(cash_price, 100),
                                    DoubleOfRatio(rate, 1000)),
                          DoubleOfRatio(1000, 1)))

\* line 263: int(cash_price * config['rate'] * 1000); int() truncates towards
\* zero and the product of a negative price is the negated product
converted_miles(cash_price, rate) ==
    IF cash_price < 0 THEN 0 - converted_magnitude(0 - cash_price, rate)
    ELSE converted_magnitude(cash_price, rate)

\* lines 262-273: the estimate of one program
program_estimate(cash_price, config) ==
    [estimated_miles   |-> Max(converted_miles(cash_price, config.rate), config.min_miles),
     fees_brl          |-> config.fees,
     total_cost_brl    |-> config.fees,
     savings_vs_cash   |-> cash_price - config.fees,
     worth_using_miles |-> (cash_price - config.fees) > 5000]

ProgramNames == {miles_programs[i].name : i \in DOMAIN miles_programs}

\* the position of a program in the table, which is the order of the dict
ProgramIndex(name) == CHOOSE i \in DOMAIN miles_programs : miles_programs[i].name = name

\* the keys of the dict, in the order of insertion
ProgramKeys == [i \in DOMAIN miles_programs |-> miles_programs[i].name]

\* min(keys, key): the scan keeps the first of the least keys
RECURSIVE MinFrom(_, _, _, _)
MinFrom(keys, key, i, best) ==
    IF i > Len(keys) THEN best
    ELSE MinFrom(keys, key, i + 1, IF key[keys[i]] < key[best] THEN keys[i] ELSE best)

RECURSIVE LastMinFrom(_, _, _, _)
LastMinFrom(keys, key, i, best) ==
    IF i > Len(keys) THEN best
    ELSE LastMinFrom(keys, key, i + 1, IF key[keys[i]] <= key[best] THEN keys[i] ELSE best)

best_miles_option_by_fees(estimates) ==
    MinFrom(ProgramKeys, [n \in DOMAIN estimates |-> estimates[n].fees_brl], 2,
            ProgramKeys[1])

best_miles_option_last(estimates) ==
    LastMinFrom(ProgramKeys, [n \in DOMAIN estimates |-> estimates[n].estimated_miles], 2,
                ProgramKeys[1])

\* lines 278-279: min(estimates.keys(), key=lambda x: estimates[x]['estimated_miles'])
best_miles_option(estimates) ==
    MinFrom(ProgramKeys, [n \in DOMAIN estimates |-> estimates[n].estimated_miles], 2,
            ProgramKeys[1])

\* lines 259-281 (the timestamp is left out)
estimate_miles_prices(cash_price) ==
    LET estimates == [n \in ProgramNames |->
                          program_estimate(cash_price, miles_programs[ProgramIndex(n)])]
    IN  [cash_price_reference |-> cash_price,
         programs             |-> estimates,
         best_miles_option    |-> best_miles_option(estimates)]

(***************************************************************************)
(* The cash prices considered, and their estimates computed once.          *)
(***************************************************************************)
MaxPromo == 610
BelowZero == 2
Reais(b) == b * 100

PromoPrices == {Reais(b) : b \in (0 - BelowZero)..MaxPromo}

MilesStep == 1300
MaxMilesSteps == 120

\* a grid, and prices at which a product is a whole number of miles or two
\* programs meet
MilesCashPrices ==
    {k * MilesStep : k \in 0..MaxMilesSteps}
    \cup {10000, 17000, 17001, 54600, 60356, 66680, 68182, 77273, 77277, 85000, 85005}

MilesEstimates == [c \in PromoPrices \cup MilesCashPrices |-> estimate_miles_prices(c)]

\* self.price_checker.estimate_miles_prices(cash_price)
miles_estimates(cash_price) ==
    IF cash_price \in DOMAIN MilesEstimates THEN MilesEstimates[cash_price]
    ELSE estimate_miles_prices(cash_price)


(***************************************************************************)
(* Deal scoring.  Prices are centavos; a percentage is kept exactly, as    *)
(* the fraction it is, and compared by cross-multiplication.  The prices   *)
(* scored below are whole amounts of reais, for which the floating-point   *)
(* subtraction is exact and the comparisons with 5, 15 and 30 agree with   *)
(* the exact ones.                                                         *)
(***************************************************************************)
\* num / den >= t, for den # 0
RatioAtLeast(num, den, t) ==
    IF den > 0 THEN num >= t * den ELSE num <= t * den

_rate_deal_quality_strict(promo_price, market_price) ==
    IF promo_price >= market_price THEN "RUIM"
    ELSE IF market_price = 0 THEN "ZeroDivisionError"
    ELSE LET num == (market_price - promo_price) * 100
         IN  IF RatioAtLeast(num, market_price, 30) /\ num # 30 * market_price
                 THEN "EXCELENTE"
             ELSE IF RatioAtLeast(num, market_price, 15) /\ num # 15 * market_price
                 THEN "MUITO_BOA"
             ELSE IF RatioAtLeast(num, market_price, 5) /\ num # 5 * market_price
                 THEN "BOA"
             ELSE "REGULAR"

_rate_deal_quality_no_bad(promo_price, market_price) ==
    IF market_price = 0 THEN "ZeroDivisionError"
    ELSE LET num == (market_price - promo_price) * 100
         IN  IF RatioAtLeast(num, market_price, 30) THEN "EXCELENTE"
             ELSE IF RatioAtLeast(num, market_price, 15) THEN "MUITO_BOA"
             ELSE IF RatioAtLeast(num, market_price, 5) THEN "BOA"
             ELSE "REGULAR"

\* the grade, or "ZeroDivisionError" when line 751 divides by zero
_rate_deal_quality(promo_price, market_price) ==
    IF promo_price >= market_price THEN "RUIM"
    ELSE IF market_price = 0 THEN "ZeroDivisionError"
    ELSE LET num == (market_price - promo_price) * 100       \* savings_pct = num / market_price
         IN  IF RatioAtLeast(num, market_price, 30) THEN "EXCELENTE"
             ELSE IF RatioAtLeast(num, market_price, 15) THEN "MUITO_BOA"
             ELSE IF RatioAtLeast(num, market_price, 5) THEN "BOA"
             ELSE "REGULAR"

\* round(savings / current_market_price * 100, 1) in tenths of a percent, for
\* current_market_price > 0.  On an exact tie between two tenths the binary
\* value of the float decides, so both neighbours are possible.
RoundedTenths(savings, current_market_price) ==
    LET lo  == (savings * 1000) \div current_market_price
        rem == savings * 1000 - lo * current_market_price
    IN  IF 2 * rem < current_market_price THEN {lo}
        ELSE IF 2 * rem > current_market_price THEN {lo + 1}
        ELSE {lo, lo + 1}

\* line 703: the values discount_percentage can take
discount_percentage(savings, current_market_price) ==
    IF current_market_price > 0 THEN RoundedTenths(savings, current_market_price) ELSE {0}

is_good_deal_loose(savings, promo_price) == savings >= 5000 /\ promo_price < 50000

\* line 704
is_good_deal(savings, promo_price) == savings > 5000 /\ promo_price < 50000

\* lines 714-720
best_program_of(estimates) ==
    [best_program      |-> estimates.best_miles_option,
     estimated_miles   |-> estimates.programs[estimates.best_miles_option].estimated_miles,
     worth_using_miles |-> estimates.programs[estimates.best_miles_option].worth_using_miles]

miles_alternative(promo_price) == best_program_of(miles_estimates(promo_price))

\* lines 692-726: post['price_analysis'] for a promotion price
\* (None or a number), a market price and its rating; `discount` is the value
\* discount_percentage took
deal_analysis(promo, current_market_price, price_rating, discount) ==
    LET base == [current_market_price_brl |-> current_market_price,
                 market_price_rating      |-> price_rating,
                 has_promotion_price      |-> promo # None]
    IN  IF promo # None /\ promo[1] # 0
        THEN LET promo_price == promo[1]
                 savings == current_market_price - promo_price
                 quality == _rate_deal_quality(promo_price, current_market_price)
             IN  IF quality = "ZeroDivisionError"
                 THEN [error |-> "ZeroDivisionError"]
                 ELSE base @@ [promotion_price_brl |-> promo,
                               savings_vs_market   |-> savings,
                               discount_percentage |-> discount,
                               is_good_deal        |-> is_good_deal(savings, promo_price),
                               deal_quality        |-> quality,
                               miles_alternative   |-> miles_alternative(promo_price)]
        ELSE base @@ [promotion_price_brl |-> None,
                      note |-> "Preço da promoção não identificado no texto"]

(***************************************************************************)
(* SpecScore: the deal scoring applied to a pair of prices                 *)
(***************************************************************************)
MarketPrices == {Reais(b) : b \in {0 - 100, 0 - 1, 0, 1, 100, 549, 550, 551, 600, 800}}

RateDealQualityCall ==
    /\ deal.fn = "none"
    /\ deal' = [fn |-> "_rate_deal_quality",
                result |-> _rate_deal_quality(score_promo, score_market)]
    /\ UNCHANGED <<monitor_vars, score_promo, score_market>>

DealAnalysisCall ==
    /\ deal.fn = "none"
    /\ \E d \in discount_percentage(score_market - score_promo, score_market) :
           deal' = [fn |-> "deal_analysis",
                    result |-> deal_analysis(Some(score_promo), score_market, "BOA", d)]
    /\ UNCHANGED <<monitor_vars, score_promo, score_market>>

ScoreInit ==
    /\ Constructed({[enabled |-> FALSE]})
    /\ price_checker = TRUE
    /\ score_promo \in PromoPrices
    /\ score_market \in MarketPrices
    /\ deal = [fn |-> "none"]

ScoreNext ==
    \/ RateDealQualityCall
    \/ DealAnalysisCall

SpecScore == ScoreInit /\ [][ScoreNext]_vars

(***************************************************************************)
(* SpecMiles: estimate_miles_prices called with a cash price               *)
(***************************************************************************)
EstimateMilesCall ==
    \E cash_price \in MilesCashPrices :
        /\ deal' = [fn |-> "estimate_miles_prices", cash_price |-> cash_price,
                    result |-> miles_estimates(cash_price)]
        /\ UNCHANGED <<monitor_vars, score_promo, score_market>>

MilesInit == Constructed({[enabled |-> FALSE]}) /\ price_checker = TRUE /\ NoScore

MilesNext == EstimateMilesCall

SpecMiles == MilesInit /\ [][MilesNext]_vars

(***************************************************************************)
(* SpecAnalysis: one call of get_complete_sp_recife_analysis, with the     *)
(* requests it sends to Amadeus and OpenSky.  Prices are in centavos.      *)
(***************************************************************************)
\* flight_price_apis.py, line 27
origins == <<"GRU", "CGH">>

\* the cheapest total an airport's offers can show
OfferPrices ==
    {Reais(300), Reais(300) + 1, Reais(450), Reais(450) + 1, Reais(600), Reais(600) + 1}

\* lines 96-104: what one flight-offers request gives: an exception, no
\* offer, or offers of which the cheapest costs p
OfferReplies ==
    {[raises |-> "HTTPError"], [offers |-> None]}
        \cup {[offers |-> Some(p)] : p \in OfferPrices}

\* lines 106-114: the error for no offer at all, else the cheapest offer; the
\* sort is stable, so the first airport wins a tie
cheapest_of(gru, cgh) ==
    IF gru = None /\ cgh = None THEN [error |-> "Nenhum voo encontrado"]
    ELSE IF cgh = None \/ (gru # None /\ gru[1] <= cgh[1])
    THEN [cheapest_price |-> gru[1], cheapest_origin |-> origins[1]]
    ELSE [cheapest_price |-> cgh[1], cheapest_origin |-> origins[2]]

\* lines 62-131: the outcomes of get_sp_recife_prices: the flight-offers
\* requests it sent, whether the token is set afterwards, and what it returns
get_sp_recife_prices(has_token) ==
    LET no_token == [requests |-> 0, token |-> FALSE,
                     result |-> [error |-> "Token não disponível"]]
        searched ==
            {[requests |-> 1, token |-> TRUE, result |-> [error |-> "HTTPError"]]}
            \cup
            UNION {{IF "raises" \in DOMAIN second
                    THEN [requests |-> 2, token |-> TRUE, result |-> [error |-> "HTTPError"]]
                    ELSE [requests |-> 2, token |-> TRUE,
                          result |-> cheapest_of(first.offers, second.offers)]
                    : second \in OfferReplies}
                   : first \in {r \in OfferReplies : "offers" \in DOMAIN r}}
    IN  IF has_token THEN searched ELSE {no_token} \cup searched

\* lines 305-316
price_rating(current_price) ==
    IF current_price <= Reais(300) THEN "EXCELENTE"
    ELSE IF current_price <= Reais(450) THEN "BOA"
    ELSE IF current_price <= Reais(600) THEN "REGULAR"
    ELSE "CARA"

\* lines 283-328, for what its own call of get_sp_recife_prices returned
get_historical_price_trend(current_prices) ==
    IF "error" \in DOMAIN current_prices THEN current_prices
    ELSE [current_price |-> current_prices.cheapest_price,
          price_rating  |-> price_rating(current_prices.cheapest_price)]

\* lines 370-390: the consolidated result
complete_analysis(price_data, trend_analysis, air_traffic) ==
    [summary |-> [cheapest_price_brl |-> price_data.cheapest_price,
                  best_origin |-> price_data.cheapest_origin,
                  price_rating |-> Get(trend_analysis, "price_rating", "UNKNOWN")],
     cash_prices |-> price_data,
     trend_analysis |-> trend_analysis,
     air_traffic |-> air_traffic,
     api_usage |-> [amadeus_requests |-> 2, opensky_requests |-> 1]]

\* lines 348-357: the price lookup; its error ends the call
AnalysisPrices ==
    /\ checker_call.at = "idle"
    /\ \E out \in get_sp_recife_prices(checker_call.amadeus_token) :
        checker_call' =
            IF "error" \in DOMAIN out.result
            THEN [checker_call EXCEPT
                    !.at = "returned",
                    !.amadeus_token = out.token,
                    !.flight_offer_requests = @ + out.requests,
                    !.result = Some([error |-> out.result.error])]
            ELSE [checker_call EXCEPT
                    !.at = "trend",
                    !.amadeus_token = out.token,
                    !.flight_offer_requests = @ + out.requests,
                    !.price_data = Some(out.result)]
    /\ UNCHANGED <<filters_config, seen_file, seen_posts, new_posts, filtered_posts,
                   rejected_posts, rejected_count, notices, pc, feeds, feed_i, attempt,
                   entries, entry_k, posts, run, store_shared, evaluated, last_call,
                   price_checker, price_cache, now_hour, fetches, uses, outbox, score_vars>>

\* line 364: the trend analysis, which looks the prices up itself (line 289)
AnalysisTrend ==
    /\ checker_call.at = "trend"
    /\ \E out \in get_sp_recife_prices(checker_call.amadeus_token) :
        checker_call' =
            [checker_call EXCEPT
                !.at = "traffic",
                !.trend_called = TRUE,
                !.flight_offer_requests = @ + out.requests,
                !.result = Some(get_historical_price_trend(out.result))]
    /\ UNCHANGED <<filters_config, seen_file, seen_posts, new_posts, filtered_posts,
                   rejected_posts, rejected_count, notices, pc, feeds, feed_i, attempt,
                   entries, entry_k, posts, run, store_shared, evaluated, last_call,
                   price_checker, price_cache, now_hour, fetches, uses, outbox, score_vars>>

\* lines 367-395: the OpenSky request (lines 133-197), answered or not, and
\* the result returned
AnalysisTraffic ==
    /\ checker_call.at = "traffic"
    /\ \E air_traffic \in {[api_status |-> "success"],
                            [error |-> "HTTPError", source |-> "OpenSky"]} :
        checker_call' =
            [checker_call EXCEPT
                !.at = "returned",
                !.opensky_requests = @ + 1,
                !.result = Some(complete_analysis(checker_call.price_data[1],
                                                  checker_call.result[1], air_traffic))]
    /\ UNCHANGED <<filters_config, seen_file, seen_posts, new_posts, filtered_posts,
                   rejected_posts, rejected_count, notices, pc, feeds, feed_i, attempt,
                   entries, entry_k, posts, run, store_shared, evaluated, last_call,
                   price_checker, price_cache, now_hour, fetches, uses, outbox, score_vars>>

AnalysisInit == Constructed({[enabled |-> FALSE]}) /\ price_checker = TRUE /\ NoScore

AnalysisNext ==
    \/ AnalysisPrices
    \/ AnalysisTrend
    \/ AnalysisTraffic

SpecAnalysis == AnalysisInit /\ [][AnalysisNext]_vars

(***************************************************************************)
(* enhance_post_with_price_analysis.  The market analysis is what          *)
(* get_complete_sp_recife_analysis returned: a dict with an 'error' key,   *)
(* or one whose summary holds the cheapest price and its rating.           *)
(***************************************************************************)
\* the hours the clock can reach past the first one
MaxHour == 1

AnalysisError == [error |-> "Token não disponível"]

AnalysisOk(price, rating) ==
    [summary |-> [cheapest_price_brl |-> price, price_rating |-> rating]]

\* flight_price_apis.py, lines 351-395: what the analysis can be
AnalysisResults == {AnalysisError, AnalysisOk(Reais(600), "REGULAR")}

\* lines 735-737 and 740-742
RecifeTerms == {"recife", "pernambuco", " pe ", " rec ", "-rec", "gru-rec", "sp-rec"}
FlightTerms == {"voo", "voos", "passagem", "passagens", "voar", "aereo", "aerea"}

\* lines 730-744
_is_post_about_recife_flights(post) ==
    LET text == Lower(FullText(Get(post, "title", ""), Get(post, "summary", "")))
    IN  /\ \E term \in RecifeTerms : Contains(text, term)
        /\ \E term \in FlightTerms : Contains(text, term)

\* line 673: the cache key of the hour
cache_key(hour) == hour

price_cache_after_ok_only(cache, key, price_analysis) ==
    IF "error" \in DOMAIN price_analysis THEN cache ELSE Put(cache, key, price_analysis)

\* line 680: self._price_cache after an analysis was fetched
price_cache_after(cache, key, price_analysis) == Put(cache, key, price_analysis)

price_analyses_scoring_errors(post, price_analysis) ==
    LET promo  == extract_price(FullText(Get(post, "title", ""), Get(post, "summary", "")))
        summ   == Get(price_analysis, "summary",
                      [cheapest_price_brl |-> Reais(600), price_rating |-> "UNKNOWN"])
        market == summ.cheapest_price_brl
        discounts == IF promo # None /\ promo[1] # 0
                     THEN discount_percentage(market - promo[1], market) ELSE {0}
    IN  {Some(deal_analysis(promo, market, summ.price_rating, d)) : d \in discounts}

\* lines 684-726: the values post['price_analysis'] can be given, None when
\* the key is not set
price_analyses(post, price_analysis) ==
    IF "error" \in DOMAIN price_analysis THEN {None}
    ELSE LET promo  == extract_price(FullText(Get(post, "title", ""),
                                              Get(post, "summary", "")))
             market == price_analysis.summary.cheapest_price_brl
             rating == price_analysis.summary.price_rating
             discounts == IF promo # None /\ promo[1] # 0
                          THEN discount_percentage(market - promo[1], market) ELSE {0}
         IN  {Some(deal_analysis(promo, market, rating, d)) : d \in discounts}

\* lines 722 and 728: the post returned
with_price_analysis(post, analysis) ==
    IF analysis = None THEN post ELSE post @@ [price_analysis |-> analysis[1]]

(***************************************************************************)
(* Spec: main(), run after run.  A run constructs the monitor, fetches the *)
(* feeds of feeds.yml one after the other, applies the notification        *)
(* threshold and saves the seen ids.  A feed serves one of FeedBodies; the  *)
(* clock may pass into the next hour while the entries of a feed are read. *)
(***************************************************************************)
MaxRuns == 2

\* lines 358 and 391
max_retries == 2
EntryLimit == 5

FeedMD  == [name |-> "Melhores Destinos", url |-> "https://md/feed"]
FeedMD2 == [name |-> "Melhores Destinos", url |-> "https://md/feed2"]
FeedPP  == [name |-> "Passagens Promo", url |-> "https://pp/rss"]
FeedNoUrl == [name |-> "Sem URL"]

\* the feeds.yml considered
FeedLists == { <<>>, <<FeedNoUrl, FeedPP>>, <<FeedMD, FeedMD2>> }

\* the filters.yml considered in whole runs
PipelineConfigs ==
    { [enabled |-> FALSE],
      [enabled  |-> TRUE,
       keywords |-> [enabled |-> TRUE, miles_keywords |-> <<"Milhas", "smiles", "pontuação">>],
       advanced |-> [log_rejected_posts |-> TRUE]],
      [enabled  |-> TRUE,
       keywords |-> [enabled |-> TRUE],
       airlines |-> [enabled |-> TRUE, include |-> <<>>, exclude |-> <<"azul">>],
       advanced |-> [log_rejected_posts |-> FALSE, min_posts_to_notify |-> 2,
                     notify_when_no_results |-> TRUE,
                     no_results_min_posts_analyzed |-> 2]] }

\* what a feed may serve: nothing; six entries with a repeated entry and two
\* entries of one id; two entries; three entries that name a price
FeedBodies ==
    { <<>>,
      <<EntryPromo, EntryLinkOnly, EntryNoId, EntryHotel, EntryPromo, EntryTitleOnly>>,
      <<EntryHotel, EntryTitleOnly>>,
      <<EntryFlight, EntryFree, EntryTitleOnly>> }

\* s[:n]
Take(s, n) == SubSeq(s, 1, IF Len(s) < n THEN Len(s) ELSE n)

feed_name == Get(feeds[feed_i], "name", "Unknown Feed")

\* public_apis.py, enhance_post_with_apis: a copy of the post, marked when its
\* text mentions Recife
enhance_post_with_apis(post) ==
    LET text == Lower(FullText(Get(post, "title", ""), Get(post, "summary", "")))
    IN  IF \E term \in {"recife", "pernambuco", " pe ", "rec"} : Contains(text, term)
        THEN post @@ [aviation_enhanced |-> TRUE]
        ELSE post

already_seen_never(seen, post_id) == FALSE

\* line 399
already_seen(seen, post_id) == post_id \in seen

seen_after_admitted(seen, post_id, admitted) ==
    IF admitted THEN seen \cup {post_id} ELSE seen

seen_after_rejected(seen, post_id, admitted) ==
    IF admitted THEN seen ELSE seen \cup {post_id}

\* line 441: self.seen_posts after an entry was evaluated
seen_after(seen, post_id, admitted) == seen \cup {post_id}

\* monitor_feeds, lines 454-458: load_feeds
LoadFeeds ==
    /\ pc = "constructed"
    /\ \E fs \in FeedLists :
        /\ feeds' = fs
        /\ IF Len(fs) = 0
           THEN pc' = "returned" /\ feed_i' = 0       \* "No feeds configured"
           ELSE pc' = "feed" /\ feed_i' = 1
    /\ UNCHANGED <<filters_config, seen_file, seen_posts, new_posts, filtered_posts,
                   rejected_posts, rejected_count, notices, attempt, entries, entry_k, posts,
                   run, store_shared, evaluated, last_call, price_vars, outbox, score_vars>>

\* lines 463-472: the next feed; one without url is passed over
NextFeed ==
    /\ pc = "feed"
    /\ feed_i <= Len(feeds)
    /\ IF Get(feeds[feed_i], "url", "") = ""
       THEN /\ feed_i' = feed_i + 1
            /\ UNCHANGED <<pc, attempt, entries, entry_k, posts>>
       ELSE /\ pc' = "get"
            /\ attempt' = 0
            /\ entries' = <<>>
            /\ entry_k' = 0
            /\ posts' = <<>>
            /\ UNCHANGED feed_i
    /\ UNCHANGED <<filters_config, seen_file, seen_posts, new_posts, filtered_posts,
                   rejected_posts, rejected_count, notices, feeds, run, store_shared,
                   evaluated, last_call, price_vars, outbox, score_vars>>

retries_any_error(tried, outcome) == outcome # "ok" /\ tried < max_retries - 1

\* lines 364-378: whether the retry loop goes on to another attempt after
\* `tried` failed attempts and this outcome of requests.get
retries(tried, outcome) ==
    CASE outcome = "ok"      -> FALSE
      [] outcome = "timeout" -> tried < max_retries - 1
      [] OTHER               -> tried < max_retries - 1 /\ outcome # "error 403"

\* the outcomes of requests.get in this call of fetch_feed so far
GetOutcomes ==
    IF Get(last_call, "fn", "") = "requests.get" THEN last_call.outcomes ELSE <<>>

\* lines 359-378: one requests.get of the retry loop; after the last failure
\* fetch_feed returns [] (line 371) or raises into its own handler (line 445)
HttpGet ==
    /\ pc = "get"
    /\ \E outcome \in {"ok", "timeout", "error", "error 403"} :
        /\ last_call' = [fn |-> "requests.get",
                         outcomes |-> Append(IF attempt = 0 THEN <<>> ELSE GetOutcomes,
                                             outcome)]
        /\ IF outcome = "ok"
           THEN /\ pc' = "entries"
                /\ entries' \in FeedBodies
                /\ UNCHANGED attempt
           ELSE /\ IF retries(attempt, outcome)
                   THEN attempt' = attempt + 1 /\ UNCHANGED pc
                   ELSE pc' = "fetched" /\ UNCHANGED attempt
                /\ UNCHANGED entries
    /\ UNCHANGED <<filters_config, seen_file, seen_posts, new_posts, filtered_posts,
                   rejected_posts, rejected_count, notices, feeds, feed_i, entry_k, posts,
                   run, store_shared, evaluated, price_vars, outbox, score_vars>>

\* lines 391-441: the loop body, for the next entry of feed.entries[:5].  An
\* admitted post is enriched (lines 426-433) before it is appended; the
\* analysis is fetched when the cache has no entry for the hour (lines 678-682)
ProcessEntry ==
    /\ pc = "entries"
    /\ entry_k < Len(Take(entries, EntryLimit))
    /\ entry_k' = entry_k + 1
    /\ LET entry == Take(entries, EntryLimit)[entry_k + 1]
           post_id == PostId(feed_name, entry)
           post == EntryPost(feed_name, entry)
           admitted == apply_filters(filters_config, rejected_count, post)
           with_apis == enhance_post_with_apis(post)
           key == cache_key(now_hour)
           called == [fn |-> "apply_filters", post |-> post,
                      counts |-> rejected_count, result |-> admitted]
       IN  IF post_id = "" \/ EndsWith(post_id, ":")
            THEN /\ last_call' = [fn |-> "continue", id |-> post_id, why |-> "no id"]
                 /\ UNCHANGED <<seen_posts, filtered_posts, rejected_posts, rejected_count,
                                notices, posts, evaluated, price_cache, fetches, uses>>
            ELSE IF already_seen(seen_posts, post_id)
            THEN /\ last_call' = [fn |-> "continue", id |-> post_id, why |-> "seen"]
                 /\ UNCHANGED <<seen_posts, filtered_posts, rejected_posts, rejected_count,
                                notices, posts, evaluated, price_cache, fetches, uses>>
            ELSE /\ evaluated' = Put(evaluated, post_id, Get(evaluated, post_id, 0) + 1)
                 /\ rejected_count' = rejected_count_after(filters_config, rejected_count, post)
                 /\ notices' = notices_after(filters_config, rejected_count, notices, post)
                 /\ IF ~admitted
                    THEN /\ rejected_posts' = Append(rejected_posts, post)
                         /\ UNCHANGED <<posts, filtered_posts, price_cache, fetches, uses>>
                         /\ last_call' = called
                    ELSE IF ~(price_checker /\ _is_post_about_recife_flights(with_apis))
                    THEN /\ posts' = Append(posts, with_apis)
                         /\ filtered_posts' = Append(filtered_posts, with_apis)
                         /\ UNCHANGED <<rejected_posts, price_cache, fetches, uses>>
                         /\ last_call' = called @@ [enriched |-> with_apis, key |-> key,
                                                    analysis |-> None]
                    ELSE \E price_analysis \in
                              IF key \in DOMAIN price_cache THEN {price_cache[key]}
                              ELSE AnalysisResults :
                         \E analysis \in price_analyses(with_apis, price_analysis) :
                         /\ IF key \in DOMAIN price_cache
                            THEN UNCHANGED <<price_cache, fetches>>
                            ELSE /\ price_cache' = price_cache_after(price_cache, key,
                                                                     price_analysis)
                                 /\ fetches' = Put(fetches, key, Get(fetches, key, 0) + 1)
                         /\ uses' = Put(uses, key, Get(uses, key, 0) + 1)
                         /\ posts' = Append(posts, with_price_analysis(with_apis, analysis))
                         /\ filtered_posts' =
                                Append(filtered_posts, with_price_analysis(with_apis, analysis))
                         /\ UNCHANGED rejected_posts
                         /\ last_call' = called @@
                                [enriched |-> with_price_analysis(with_apis, analysis),
                                 key |-> key, analysis |-> Some(price_analysis)]
                 /\ seen_posts' = seen_after(seen_posts, post_id, admitted)
    /\ UNCHANGED <<filters_config, seen_file, new_posts, pc, feeds, feed_i, attempt,
                   entries, run, store_shared, price_checker, now_hour, outbox,
                   checker_call, score_vars>>

\* line 673: datetime.now() has passed into the next hour when the next entry
\* is read
Tick ==
    /\ pc = "entries"
    /\ price_checker
    /\ entry_k < Len(Take(entries, EntryLimit))
    /\ now_hour < MaxHour
    /\ now_hour' = now_hour + 1
    /\ UNCHANGED <<filters_config, seen_file, seen_posts, new_posts, filtered_posts,
                   rejected_posts, rejected_count, notices, pc, feeds, feed_i, attempt,
                   entries, entry_k, posts, run, store_shared, evaluated, last_call,
                   price_checker, price_cache, fetches, uses, outbox, checker_call,
                   score_vars>>

\* line 443: the loop over feed.entries[:5] is through
EndOfEntries ==
    /\ pc = "entries"
    /\ entry_k >= Len(Take(entries, EntryLimit))
    /\ pc' = "fetched"
    /\ UNCHANGED <<filters_config, seen_file, seen_posts, new_posts, filtered_posts,
                   rejected_posts, rejected_count, notices, feeds, feed_i, attempt, entries, entry_k,
                   posts, run, store_shared, evaluated, last_call, price_vars, outbox, score_vars>>

\* line 450 and lines 472-473: fetch_feed returns posts, monitor_feeds extends new_posts
FetchReturns ==
    /\ pc = "fetched"
    /\ new_posts' = new_posts \o posts
    /\ posts' = <<>>
    /\ feed_i' = feed_i + 1
    /\ pc' = "feed"
    /\ last_call' = [fn |-> "fetch_feed", result |-> posts]
    /\ UNCHANGED <<filters_config, seen_file, seen_posts, filtered_posts, rejected_posts,
                   rejected_count, notices, feeds, attempt, entries, entry_k, run, store_shared,
                   evaluated, price_vars, outbox, score_vars>>

\* line 495
min_posts_to_notify(config) ==
    Get(Get(config, "advanced", EmptyDict), "min_posts_to_notify", 1)

\* line 502
notify_when_no_results(config) ==
    Get(Get(config, "advanced", EmptyDict), "notify_when_no_results", FALSE)

\* line 505
no_results_min_posts_analyzed(config) ==
    Get(Get(config, "advanced", EmptyDict), "no_results_min_posts_analyzed", 10)

\* line 496: the run skips its notifications
skips_notifications(config, admitted) ==
    Get(config, "enabled", FALSE) /\ Len(admitted) < min_posts_to_notify(config)

\* lines 495-514: the notification threshold.  send_no_promotions_notification
\* (lines 619-659) posts its message when the Telegram credentials are set
\* and the request goes through
Threshold ==
    /\ pc = "feed"
    /\ feed_i > Len(feeds)
    /\ IF skips_notifications(filters_config, filtered_posts)
       THEN /\ new_posts' = <<>>
            /\ LET total_analyzed == Len(new_posts) + Len(rejected_posts)
               IN  IF /\ notify_when_no_results(filters_config)
                      /\ total_analyzed >= no_results_min_posts_analyzed(filters_config)
                   THEN \E delivered \in BOOLEAN :
                            outbox' = Append(outbox,
                                [fn |-> "send_no_promotions_notification",
                                 total_analyzed |-> total_analyzed,
                                 rejected_count |-> Len(rejected_posts),
                                 admitted |-> Len(filtered_posts),
                                 sent |-> delivered])
                   ELSE UNCHANGED outbox
       ELSE /\ IF Get(filters_config, "enabled", FALSE)
               THEN new_posts' = filtered_posts
               ELSE UNCHANGED new_posts
            /\ UNCHANGED outbox
    /\ pc' = "save"
    /\ UNCHANGED <<filters_config, seen_file, seen_posts, filtered_posts, rejected_posts,
                   rejected_count, notices, feeds, feed_i, attempt, entries, entry_k, posts, run,
                   store_shared, evaluated, last_call, price_vars, score_vars>>

\* save_seen_posts, lines 77-88: the ids are written, or the write fails and
\* the error is printed; monitor_feeds returns after display_new_posts
SaveSeenPosts ==
    /\ pc = "save"
    /\ \/ seen_file' = seen_posts /\ UNCHANGED store_shared
       \/ UNCHANGED seen_file /\ store_shared' = (store_shared /\ seen_file = seen_posts)
    /\ outbox' = Append(outbox, [fn |-> "save_seen_posts"])
    /\ pc' = "returned"
    /\ UNCHANGED <<filters_config, seen_posts, new_posts, filtered_posts, rejected_posts,
                   rejected_count, notices, feeds, feed_i, attempt, entries, entry_k, posts, run,
                   evaluated, last_call, price_vars, score_vars>>

\* main, line 797, and lines 549-617: nothing is done for an empty new_posts;
\* else the message is posted when the credentials are set and the request
\* goes through
SendTelegramNotification ==
    /\ pc = "returned"
    /\ IF Len(new_posts) = 0
       THEN UNCHANGED outbox
       ELSE \E delivered \in BOOLEAN :
                outbox' = Append(outbox, [fn |-> "send_telegram_notification",
                                          total |-> Len(new_posts), sent |-> delivered])
    /\ pc' = "notified"
    /\ UNCHANGED <<filters_config, seen_file, seen_posts, new_posts, filtered_posts,
                   rejected_posts, rejected_count, notices, feeds, feed_i, attempt, entries,
                   entry_k, posts, run, store_shared, evaluated, last_call, price_vars,
                   score_vars>>

\* main, line 798, and lines 764-789: nothing is done for an empty new_posts;
\* else new_posts_count is written when GITHUB_OUTPUT is set
CreateGithubOutput ==
    /\ pc = "notified"
    /\ IF Len(new_posts) = 0
       THEN UNCHANGED outbox
       ELSE \E written \in BOOLEAN :
                outbox' = Append(outbox, [fn |-> "create_github_output",
                                          total |-> Len(new_posts), sent |-> written])
    /\ pc' = "exit"
    /\ UNCHANGED <<filters_config, seen_file, seen_posts, new_posts, filtered_posts,
                   rejected_posts, rejected_count, notices, feeds, feed_i, attempt, entries,
                   entry_k, posts, run, store_shared, evaluated, last_call, price_vars,
                   score_vars>>

\* the next run of main(): __init__, lines 38-61, with load_seen_posts reading
\* seen.json or failing to decode it
NewRun ==
    /\ pc = "exit"
    /\ run < MaxRuns
    /\ run' = run + 1
    /\ filters_config' \in PipelineConfigs
    /\ \/ seen_posts' = seen_file /\ UNCHANGED store_shared
       \/ seen_posts' = {} /\ store_shared' = (store_shared /\ seen_file = {})
    /\ new_posts' = <<>>
    /\ filtered_posts' = <<>>
    /\ rejected_posts' = <<>>
    /\ rejected_count' = EmptyDict
    /\ notices' = EmptyDict
    /\ pc' = "constructed"
    /\ feeds' = <<>>
    /\ feed_i' = 0
    /\ attempt' = 0
    /\ entries' = <<>>
    /\ entry_k' = 0
    /\ posts' = <<>>
    /\ last_call' = NoCall
    /\ price_cache' = EmptyDict
    /\ fetches' = EmptyDict
    /\ uses' = EmptyDict
    /\ now_hour' = 0
    /\ outbox' = <<>>
    /\ UNCHANGED <<seen_file, evaluated, price_checker, checker_call, score_vars>>

Init == Constructed(PipelineConfigs) /\ price_checker \in BOOLEAN /\ NoScore

Next ==
    \/ LoadFeeds
    \/ NextFeed
    \/ HttpGet
    \/ ProcessEntry
    \/ Tick
    \/ EndOfEntries
    \/ FetchReturns
    \/ Threshold
    \/ SaveSeenPosts
    \/ SendTelegramNotification
    \/ CreateGithubOutput
    \/ NewRun

Spec == Init /\ [][Next]_vars

(***************************************************************************)
(* Properties of the filter, checked under SpecCalls                       *)
(***************************************************************************)
\* d without the key k
Without(d, k) == [x \in DOMAIN d \ {k} |-> d[x]]

FiltersEnabled == Get(filters_config, "enabled", FALSE)

KeywordsEnabled == Get(Get(filters_config, "keywords", EmptyDict), "enabled", FALSE)

LogsRejected == Get(Get(filters_config, "advanced", EmptyDict), "log_rejected_posts", FALSE)

AppliedFilters == last_call.fn = "apply_filters"

LastFeedName == Get(last_call.post, "feed_name", "unknown")

\* C1: apply_filters returns True for every post when filters_config.enabled is
\* false or absent; when it is enabled the result is that of check_keyword_filter
\* on the post's title and summary, computed from the keywords section alone:
\* the routes, price and airlines sections play no part.
C1_ApplyFiltersIsKeywordFilter ==
    AppliedFilters =>
        LET title == Get(last_call.post, "title", "")
            summary == Get(last_call.post, "summary", "")
            keywords_only == [keywords |-> Get(filters_config, "keywords", EmptyDict)]
        IN  IF FiltersEnabled
            THEN last_call.result = check_keyword_filter(keywords_only, title, summary)
            ELSE last_call.result = TRUE

\* a post that the airline filter of the configuration rejects was admitted
C1_Witness ==
    /\ AppliedFilters
    /\ FiltersEnabled
    /\ KeywordsEnabled
    /\ "airlines" \in DOMAIN filters_config
    /\ ~check_airline_filter(filters_config, last_call.post.title, last_call.post.summary)
    /\ last_call.result = TRUE

\* the case of Cases with this title and summary
CaseOf(title, summary) == CHOOSE c \in Cases : c.title = title /\ c.summary = summary

\* one of the configured miles_keywords occurs in the case's text
CaseHasMiles(c) ==
    LET miles_keywords ==
            Get(Get(filters_config, "keywords", EmptyDict), "miles_keywords", <<>>)
    IN  \E i \in 1..Len(miles_keywords) : miles_keywords[i] \in c.miles

\* C2: with the keywords section enabled, check_keyword_filter returns True iff
\* the text has a Recife indicator and (a flight/travel term or one of the
\* configured miles_keywords).
C2_KeywordConjunction ==
    (last_call.fn = "check_keyword_filter" /\ KeywordsEnabled) =>
        LET c == CaseOf(last_call.title, last_call.summary)
        IN  last_call.result = (c.recife /\ (c.flight \/ CaseHasMiles(c)))

\* a text naming Recife with no flight and no mileage term was rejected
C2_Witness ==
    /\ last_call.fn = "check_keyword_filter"
    /\ KeywordsEnabled
    /\ LET c == CaseOf(last_call.title, last_call.summary)
       IN  c.recife /\ ~c.flight /\ ~CaseHasMiles(c)
    /\ last_call.result = FALSE

FeedNamesCounted == DOMAIN rejected_count \cup DOMAIN notices \cup {"unknown", "Melhores Destinos"}

C5_Bounded ==
    \A f \in FeedNamesCounted :
        /\ Get(notices, f, NoNotices).detail <= 3
        /\ Get(notices, f, NoNotices).summary <= 1
        /\ Get(rejected_count, f, 0) <= 4

C5_Step ==
    \A f \in FeedNamesCounted \cup DOMAIN rejected_count' :
        /\ Get(rejected_count', f, 0) >= Get(rejected_count, f, 0)
        /\ Get(rejected_count', f, 0) # Get(rejected_count, f, 0) =>
              /\ Get(rejected_count', f, 0) = Get(rejected_count, f, 0) + 1
              /\ last_call'.fn = "apply_filters"
              /\ last_call'.result = FALSE
              /\ Get(last_call'.post, "feed_name", "unknown") = f

\* C5: for every feed name at most 3 detailed rejection notices and at most 1
\* summary notice are printed; the feed's rejection counter never exceeds 4, is
\* never decremented or reset, and changes only by one, on the rejection of a
\* post of that feed.
C5_RejectionNoticesRateLimited == []C5_Bounded /\ [][C5_Step]_vars

\* a post of a feed was rejected after the feed's summary notice: nothing more
\* was printed or counted
C5_Witness ==
    /\ AppliedFilters
    /\ LogsRejected
    /\ last_call.result = FALSE
    /\ Get(last_call.counts, LastFeedName, 0) = 4
    /\ Get(rejected_count, LastFeedName, 0) = 4
    /\ notices[LastFeedName] = [detail |-> 3, summary |-> 1]

\* C6: the verdict of apply_filters does not depend on advanced.log_rejected_posts,
\* on the post's feed name or on the rejection counter: it is the verdict of the
\* call on the same title and summary with the same keywords configuration, no
\* advanced section, no feed name and an empty counter.
C6_NoticesDoNotDecide ==
    AppliedFilters =>
        last_call.result =
            apply_filters(Without(filters_config, "advanced"), EmptyDict,
                          Without(last_call.post, "feed_name"))

\* a rejection with logging on, a named feed and the counter of that feed at 4
C6_Witness ==
    /\ AppliedFilters
    /\ LogsRejected
    /\ "feed_name" \in DOMAIN last_call.post
    /\ Get(last_call.counts, LastFeedName, 0) = 4
    /\ last_call.result = FALSE

(***************************************************************************)
(* Properties of the deal scoring, checked under SpecScore                 *)
(***************************************************************************)
RatedQuality == deal.fn = "_rate_deal_quality"

\* savingsPct = (market - promo) / market * 100 against a threshold, market # 0
SavingsPctAtLeast(t) ==
    IF score_market > 0
    THEN (score_market - score_promo) * 100 >= t * score_market
    ELSE (score_market - score_promo) * 100 <= t * score_market

\* C7: _rate_deal_quality returns RUIM whenever promo >= market; otherwise, where
\* savingsPct = (market - promo)/market*100 is defined, EXCELENTE iff
\* savingsPct >= 30, MUITO_BOA iff 15 <= savingsPct < 30, BOA iff
\* 5 <= savingsPct < 15 and REGULAR iff savingsPct < 5.
C7_DealQualityGrades ==
    RatedQuality =>
        /\ score_promo >= score_market => deal.result = "RUIM"
        /\ (score_promo < score_market /\ score_market # 0) =>
              /\ deal.result = "EXCELENTE" <=> SavingsPctAtLeast(30)
              /\ deal.result = "MUITO_BOA" <=> (SavingsPctAtLeast(15) /\ ~SavingsPctAtLeast(30))
              /\ deal.result = "BOA" <=> (SavingsPctAtLeast(5) /\ ~SavingsPctAtLeast(15))
              /\ deal.result = "REGULAR" <=> ~SavingsPctAtLeast(5)

\* a promotion at the market price was graded
C7_Witness ==
    /\ RatedQuality
    /\ score_promo = score_market
    /\ score_market > 0
    /\ deal.result = "RUIM"

Graded(promo_reais, market_reais, grade) ==
    (RatedQuality /\ score_promo = Reais(promo_reais) /\ score_market = Reais(market_reais))
        => deal.result = grade

\* C8 as stated: for the market price 600, 590 gives RUIM (BAD), 420 EXCELENTE,
\* 510 MUITO_BOA, 570 BOA and 595 REGULAR.
C8_AsStated ==
    /\ Graded(590, 600, "RUIM")
    /\ Graded(420, 600, "EXCELENTE")
    /\ Graded(510, 600, "MUITO_BOA")
    /\ Graded(570, 600, "BOA")
    /\ Graded(595, 600, "REGULAR")

\* C8 (amended): for the market price 600, 590 gives REGULAR (590 < 600 saves
\* 1.67 %), 420 gives EXCELENTE, 510 MUITO_BOA, 570 BOA and 595 REGULAR.
C8_GradesAt600 ==
    /\ Graded(590, 600, "REGULAR")
    /\ Graded(420, 600, "EXCELENTE")
    /\ Graded(510, 600, "MUITO_BOA")
    /\ Graded(570, 600, "BOA")
    /\ Graded(595, 600, "REGULAR")

\* 590 against 600 was graded
C8_Witness ==
    /\ RatedQuality
    /\ score_promo = Reais(590)
    /\ score_market = Reais(600)
    /\ deal.result = "REGULAR"

Scored == deal.fn = "deal_analysis" /\ "is_good_deal" \in DOMAIN deal.result

\* C9: savings_vs_market = market price - promo price, and is_good_deal is true
\* iff savings_vs_market > 50 and promo price < 500, both strict: savings 50
\* with promo 499 gives false, savings 51 with promo 499 gives true, promo 500
\* gives false whatever the savings.
C9_GoodDealStrict ==
    Scored =>
        /\ deal.result.savings_vs_market = score_market - score_promo
        /\ deal.result.is_good_deal =
              (deal.result.savings_vs_market > Reais(50) /\ score_promo < Reais(500))
        /\ (deal.result.savings_vs_market = Reais(50) /\ score_promo = Reais(499))
              => ~deal.result.is_good_deal
        /\ (deal.result.savings_vs_market = Reais(51) /\ score_promo = Reais(499))
              => deal.result.is_good_deal
        /\ score_promo = Reais(500) => ~deal.result.is_good_deal

\* savings of exactly 50 with a promotion price of 499
C9_Witness ==
    /\ Scored
    /\ score_promo = Reais(499)
    /\ deal.result.savings_vs_market = Reais(50)
    /\ ~deal.result.is_good_deal

IdsOf(ps) == {ps[i].id : i \in DOMAIN ps}

Occurrences(ps, id) == Cardinality({i \in DOMAIN ps : ps[i].id = id})

SkippedAsSeen == Get(last_call, "fn", "") = "continue" /\ Get(last_call, "why", "") = "seen"

\* a step leaves alone every id that is in seen_posts: it is not evaluated
\* and no post of that id is added to a list
SeenIdsLeftAlone ==
    \A id \in seen_posts :
        /\ Get(evaluated', id, 0) = Get(evaluated, id, 0)
        /\ Occurrences(filtered_posts', id) <= Occurrences(filtered_posts, id)
        /\ Occurrences(rejected_posts', id) <= Occurrences(rejected_posts, id)
        /\ Occurrences(posts', id) <= Occurrences(posts, id)

EvaluatedAreSeen ==
    /\ IdsOf(filtered_posts) \cup IdsOf(rejected_posts) \cup IdsOf(posts) \subseteq seen_posts
    /\ Get(last_call, "fn", "") = "apply_filters" => last_call.post.id \in seen_posts

EvaluatedOncePerStore ==
    store_shared => \A id \in DOMAIN evaluated : evaluated[id] <= 1

\* C3: in fetch_feed an entry whose id is in seen_posts is neither evaluated
\* by apply_filters nor added to filtered_posts, rejected_posts or the
\* returned list; an evaluated entry, admitted or rejected, has its id in
\* seen_posts afterwards; and as long as every run has saved its ids to the
\* store and the next run has loaded them, no id is evaluated twice.
C3_SeenEntriesEvaluatedOnce ==
    /\ [](EvaluatedAreSeen /\ EvaluatedOncePerStore)
    /\ [][SeenIdsLeftAlone]_vars

\* a second run, on the store of the first, skips an entry the first evaluated
C3_Witness ==
    /\ run = 2
    /\ store_shared
    /\ SkippedAsSeen
    /\ last_call.id \notin IdsOf(filtered_posts) \cup IdsOf(rejected_posts)
    /\ Get(evaluated, last_call.id, 0) = 1

\* C4: at every point of a run the posts of filtered_posts and
\* rejected_posts, taken together, have pairwise different ids.
C4_NoTwoPostsShareAnId ==
    LET held == filtered_posts \o rejected_posts
    IN  \A i, j \in DOMAIN held : held[i].id = held[j].id => i = j

\* the first entry of a later feed collides with a post an earlier feed of
\* this run left in rejected_posts, and is skipped
C4_Witness ==
    /\ pc = "entries"
    /\ feed_i > 1
    /\ entry_k = 1
    /\ SkippedAsSeen
    /\ last_call.id \in IdsOf(rejected_posts)
    /\ last_call.id \notin seen_file

(***************************************************************************)
(* Properties of the predicates, checked under SpecPredicates             *)
(***************************************************************************)
Called(fn) == last_call.fn = fn

\* the text of the last call, with what a reader finds in it
CalledOn ==
    CHOOSE t \in PredicateTexts :
        t.title = last_call.title /\ t.summary = last_call.summary

Section(name) == Get(filters_config, name, EmptyDict)

SectionOn(name) == Get(Section(name), "enabled", FALSE)

\* the places a route of the configurations names, for the routes that are
\* one location or 'Origin -> Destination'
RoutePlaces ==
    ("São Paulo -> Recife" :> {"São Paulo", "Recife"})
    @@ ("Natal -> Recife" :> {"Natal", "Recife"})
    @@ ("Salvador" :> {"Salvador"})
    @@ ("Recife" :> {"Recife"})
    @@ ("natal" :> {"Natal"})

RoutesWellFormed ==
    /\ \A i \in DOMAIN Get(Section("routes"), "include", <<>>) :
           Section("routes").include[i] \in DOMAIN RoutePlaces
    /\ \A i \in DOMAIN Get(Section("routes"), "exclude", <<>>) :
           Section("routes").exclude[i] \in DOMAIN RoutePlaces

\* C14: with the routes section enabled and routes that are a location or
\* 'Origin -> Destination', a non-empty include list decides alone (True iff
\* the text names every place of at least one include route); with an empty
\* include list the result is False iff the text names every place of at
\* least one exclude route.
C14_RouteFilter ==
    (Called("check_route_filter") /\ SectionOn("routes") /\ RoutesWellFormed) =>
        LET include == Get(Section("routes"), "include", <<>>)
            exclude == Get(Section("routes"), "exclude", <<>>)
            Named(route) == RoutePlaces[route] \subseteq CalledOn.places
        IN  IF Len(include) > 0
            THEN last_call.did = Returns(\E i \in DOMAIN include : Named(include[i]))
            ELSE last_call.did = Returns(~ \E i \in DOMAIN exclude : Named(exclude[i]))

\* a text that an include route and an exclude route both match passes
C14_Witness ==
    /\ Called("check_route_filter")
    /\ SectionOn("routes")
    /\ Get(Section("routes"), "include", <<>>) = <<"São Paulo -> Recife">>
    /\ Get(Section("routes"), "exclude", <<>>) = <<"Recife">>
    /\ CalledOn.places = {"São Paulo", "Recife"}
    /\ last_call.did = Returns(TRUE)

\* C15: a predicate whose section is absent, or has no 'enabled' key, or has
\* it false, returns True; with filtering enabled and no keywords section
\* apply_filters admits every post.
C15_DisabledSectionPasses ==
    /\ (Called("check_route_filter") /\ ~SectionOn("routes")) => last_call.did = Returns(TRUE)
    /\ (Called("check_price_filter") /\ ~SectionOn("price")) => last_call.result = TRUE
    /\ (Called("check_airline_filter") /\ ~SectionOn("airlines")) => last_call.result = TRUE
    /\ (Called("check_keyword_filter") /\ ~SectionOn("keywords")) => last_call.result = TRUE
    /\ (Called("apply_filters") /\ "keywords" \notin DOMAIN filters_config) =>
           last_call.result = TRUE

\* a routes section without 'enabled' whose include list the text does not match
C15_Witness ==
    /\ Called("check_route_filter")
    /\ "routes" \in DOMAIN filters_config
    /\ "enabled" \notin DOMAIN Section("routes")
    /\ Section("routes").include = <<"Salvador">>
    /\ "Salvador" \notin CalledOn.places
    /\ last_call.did = Returns(TRUE)

\* C16: with the price section enabled, a text without a price passes, and a
\* text with a price passes iff the price is at most international_max when
\* it names an international destination, at most domestic_max when not.
C16_PriceFilter ==
    (Called("check_price_filter") /\ SectionOn("price")) =>
        LET limit == IF CalledOn.international
                     THEN Get(Section("price"), "international_max", 250000)
                     ELSE Get(Section("price"), "domestic_max", 80000)
        IN  last_call.result = (CalledOn.price = None \/ CalledOn.price[1] <= limit)

\* a price of exactly domestic_max = 800 passes
C16_Witness ==
    /\ Called("check_price_filter")
    /\ SectionOn("price")
    /\ Get(Section("price"), "domestic_max", 0) = 80000
    /\ CalledOn.price = Some(80000)
    /\ ~CalledOn.international
    /\ last_call.result = TRUE

\* C17: with the airlines section enabled the result is False when the
\* include list is not empty and the text names none of its airlines, False
\* when the text names an airline of the exclude list, True otherwise.
C17_AirlineFilter ==
    (Called("check_airline_filter") /\ SectionOn("airlines")) =>
        LET include == Get(Section("airlines"), "include", <<>>)
            exclude == Get(Section("airlines"), "exclude", <<>>)
            Named(airline) == Lower(airline) \in CalledOn.airlines
        IN  last_call.result =
                ~ \/ (Len(include) > 0 /\ \A i \in DOMAIN include : ~Named(include[i]))
                  \/ \E i \in DOMAIN exclude : Named(exclude[i])

\* a text that names an included and an excluded airline is rejected
C17_Witness ==
    /\ Called("check_airline_filter")
    /\ SectionOn("airlines")
    /\ Get(Section("airlines"), "include", <<>>) = <<"GOL">>
    /\ Get(Section("airlines"), "exclude", <<>>) = <<"Latam">>
    /\ CalledOn.airlines = {"latam", "gol"}
    /\ last_call.result = FALSE

\* C20: check_route_filter returns a boolean whatever the number of ' -> '
\* separators in the routes of routes.include and routes.exclude.
C20_RouteFilterNeverRaises ==
    Called("check_route_filter") => "returns" \in DOMAIN last_call.did

(***************************************************************************)
(* Properties of the mileage estimate, checked under SpecMiles            *)
(***************************************************************************)
MilesEstimated == deal.fn = "estimate_miles_prices"

TableOrder == <<"Smiles (GOL)", "TudoAzul (Azul)", "LATAM Pass", "Livelo">>

\* C18: for every program of the table and every cash price, estimated_miles
\* is max(floor(cash price * rate * 1000), min_miles), total_cost_brl is the
\* fees, savings_vs_cash is cash price - fees and worth_using_miles is
\* savings_vs_cash > 50.
C18_MilesFormula ==
    MilesEstimated =>
        \A i \in DOMAIN miles_programs :
            LET program == miles_programs[i]
                estimate == deal.result.programs[program.name]
            IN  /\ estimate.estimated_miles =
                       Max((deal.cash_price * program.rate) \div 100, program.min_miles)
                /\ estimate.total_cost_brl = program.fees
                /\ estimate.savings_vs_cash = deal.cash_price - program.fees
                /\ estimate.worth_using_miles = (estimate.savings_vs_cash > 5000)

\* C19: best_miles_option is a program of the table, no program has fewer
\* estimated miles, and no program earlier in the table has as few.
C19_BestIsFirstMinimum ==
    MilesEstimated =>
        LET programs == deal.result.programs
            best == deal.result.best_miles_option
        IN  /\ \E b \in DOMAIN TableOrder : TableOrder[b] = best
            /\ \A i \in DOMAIN TableOrder :
                   programs[best].estimated_miles <= programs[TableOrder[i]].estimated_miles
            /\ \A i, b \in DOMAIN TableOrder :
                   (TableOrder[b] = best /\ i < b) =>
                       programs[TableOrder[i]].estimated_miles > programs[best].estimated_miles

\* two programs tie on the least estimate, and the one with the higher fees,
\* earlier in the table, is chosen
C19_Witness ==
    /\ MilesEstimated
    /\ deal.result.programs["TudoAzul (Azul)"].estimated_miles
           = deal.result.programs["LATAM Pass"].estimated_miles
    /\ deal.result.best_miles_option = "TudoAzul (Azul)"

(***************************************************************************)
(* Properties of the price enrichment, checked under Spec                  *)
(***************************************************************************)
\* the last entry was evaluated by apply_filters and admitted
AdmittedCall == Get(last_call, "fn", "") = "apply_filters" /\ last_call.result

ScoringFields ==
    {"savings_vs_market", "discount_percentage", "is_good_deal", "deal_quality"}

ScoredFields(post) ==
    IF "price_analysis" \in DOMAIN post
    THEN DOMAIN post.price_analysis \cap (ScoringFields \cup {"miles_alternative"})
    ELSE {}

Last(s) == s[Len(s)]

PromoOf(post) == extract_price(FullText(Get(post, "title", ""), Get(post, "summary", "")))

ErrorAnalysisUsed ==
    last_call.analysis # None /\ "error" \in DOMAIN last_call.analysis[1]

\* C11: an admitted post, enriched or not, is the post appended to
\* filtered_posts and (while its feed is being read) to the list fetch_feed
\* returns, its id is in seen_posts
\* and it is not in rejected_posts; when there is no price checker, or the
\* market analysis carries an 'error' key, none of savings_vs_market,
\* discount_percentage, is_good_deal, deal_quality, miles_alternative is
\* attached to it.
C11_EnrichmentKeepsAdmitted ==
    AdmittedCall =>
        /\ Len(filtered_posts) > 0
        /\ Last(filtered_posts) = last_call.enriched
        /\ last_call.enriched.id = last_call.post.id
        /\ (pc \in {"entries", "fetched"} /\ entry_k > 0) =>
               Len(posts) > 0 /\ Last(posts) = last_call.enriched
        /\ last_call.post.id \in seen_posts
        /\ last_call.post.id \notin IdsOf(rejected_posts)
        /\ (~price_checker \/ ErrorAnalysisUsed) => ScoredFields(last_call.enriched) = {}

\* a post about flights to Recife that names a price was admitted while the
\* market analysis was an error result
C11_Witness ==
    /\ AdmittedCall
    /\ price_checker
    /\ ErrorAnalysisUsed
    /\ PromoOf(last_call.post) = Some(Reais(420))
    /\ Last(filtered_posts).id = last_call.post.id

C12_FetchedOncePerHour == \A h \in DOMAIN fetches : fetches[h] <= 1

C12_CacheKept ==
    run' = run =>
        \A h \in DOMAIN price_cache :
            h \in DOMAIN price_cache' /\ price_cache'[h] = price_cache[h]

C12_CacheUsed ==
    (AdmittedCall /\ last_call.analysis # None) =>
        /\ last_call.key \in DOMAIN price_cache
        /\ price_cache[last_call.key] = last_call.analysis[1]

\* C12: within a run get_complete_sp_recife_analysis is called at most once
\* for an hour, whatever it returned; an entry of the cache is never replaced
\* or dropped; and the analysis an enrichment uses is the cache's entry for
\* its hour.
C12_AnalysisFetchedOncePerHour ==
    /\ [](C12_FetchedOncePerHour /\ C12_CacheUsed)
    /\ [][C12_CacheKept]_vars

\* two posts were enriched in one hour on one fetch, which returned an error
C12_Witness ==
    \E h \in DOMAIN uses :
        /\ uses[h] >= 2
        /\ Get(fetches, h, 0) = 1
        /\ "error" \in DOMAIN price_cache[h]

\* C13: an admitted post from whose title and summary a price can be
\* extracted, enriched while an error-free market analysis is at hand for
\* the hour, carries savings_vs_market, discount_percentage, is_good_deal
\* and deal_quality.
C13_PricedPostsAreScored ==
    ( /\ AdmittedCall
      /\ price_checker
      /\ PromoOf(last_call.post) # None
      /\ last_call.key \in DOMAIN price_cache
      /\ "error" \notin DOMAIN price_cache[last_call.key] )
    => ScoringFields \subseteq ScoredFields(last_call.enriched)

\* C28: in every price_analysis without an 'error' key attached to a post,
\* has_promotion_price is true exactly when promotion_price_brl is a number
\* and savings_vs_market, discount_percentage, is_good_deal, deal_quality and
\* miles_alternative are present; a price of 0 included.
C28_HasPromotionPriceMeansScored ==
    \A i \in DOMAIN filtered_posts :
        LET post == filtered_posts[i]
        IN  ("price_analysis" \in DOMAIN post /\ "error" \notin DOMAIN post.price_analysis) =>
                (post.price_analysis.has_promotion_price
                 <=> /\ post.price_analysis.promotion_price_brl # None
                     /\ ScoredFields(post) = ScoringFields \cup {"miles_alternative"})

(***************************************************************************)
(* Properties of a whole run, checked under Spec                           *)
(***************************************************************************)
\* monitor_feeds went through its feeds, applied the threshold and returned
MonitorDone == pc \in {"returned", "notified", "exit"} /\ Len(feeds) > 0

Outputs == {"send_telegram_notification", "create_github_output"}

Emitted(fns) == {i \in DOMAIN outbox : outbox[i].fn \in fns}

\* with filters enabled: too few admitted posts leave new_posts empty and
\* nothing is emitted; otherwise new_posts is filtered_posts
C24_ThresholdWithFilters ==
    (MonitorDone /\ FiltersEnabled) =>
        IF Len(filtered_posts) < min_posts_to_notify(filters_config)
        THEN new_posts = <<>> /\ Emitted(Outputs) = {}
        ELSE new_posts = filtered_posts

\* with filters disabled: new_posts holds the posts of every id the run added
\* to seen_posts, once each, and nothing was rejected
C24_AllPostsWithoutFilters ==
    ((pc = "save" \/ MonitorDone) /\ ~FiltersEnabled) =>
        /\ new_posts = filtered_posts
        /\ rejected_posts = <<>>
        /\ IdsOf(new_posts) \subseteq seen_posts
        /\ pc = "save" => seen_posts \ seen_file \subseteq IdsOf(new_posts)
        /\ \A id \in IdsOf(new_posts) : Occurrences(new_posts, id) = 1

\* whatever was sent out was sent after save_seen_posts was called
C24_SavedBeforeSent ==
    \A i \in DOMAIN outbox :
        (outbox[i].fn # "save_seen_posts" /\ outbox[i].sent) =>
            \E j \in 1..(i - 1) : outbox[j].fn = "save_seen_posts"

\* C24: after monitor_feeds with filters enabled, fewer admitted posts than
\* advanced.min_posts_to_notify (default 1) leave new_posts empty, so that
\* send_telegram_notification and create_github_output emit nothing, and
\* otherwise new_posts equals filtered_posts; with filters disabled new_posts
\* holds every newly discovered post of the run; and save_seen_posts is
\* called before any notification is sent.
C24_ThresholdThenSaveThenNotify ==
    /\ C24_ThresholdWithFilters
    /\ C24_AllPostsWithoutFilters
    /\ C24_SavedBeforeSent

\* C25: fetch_feed makes at most 2 GET attempts for a feed; there is a second
\* one only after a timeout or a request error that does not mention 403 on
\* the first; and when the last attempt fails fetch_feed returns an empty
\* list and leaves seen_posts, filtered_posts and rejected_posts as they were.
C25_LastAttemptFailed ==
    pc = "fetched" /\ GetOutcomes # <<>> /\ Last(GetOutcomes) # "ok"

C25_Attempts ==
    /\ Len(GetOutcomes) <= 2
    /\ Len(GetOutcomes) = 2 => GetOutcomes[1] \in {"timeout", "error"}
    /\ (pc = "get" /\ attempt > 0) =>
           Len(GetOutcomes) = attempt /\ GetOutcomes[1] \in {"timeout", "error"}
    /\ C25_LastAttemptFailed => posts = <<>>

C25_FailureStep ==
    /\ pc = "get" =>
           /\ <<seen_posts, filtered_posts, rejected_posts, new_posts>>' =
                  <<seen_posts, filtered_posts, rejected_posts, new_posts>>
           /\ Len(GetOutcomes') = Len(GetOutcomes) + 1 \/ Len(GetOutcomes') = 1
    /\ C25_LastAttemptFailed =>
           /\ last_call' = [fn |-> "fetch_feed", result |-> <<>>]
           /\ <<seen_posts, filtered_posts, rejected_posts, new_posts>>' =
                  <<seen_posts, filtered_posts, rejected_posts, new_posts>>

C25_AtMostTwoAttempts == []C25_Attempts /\ [][C25_FailureStep]_vars

\* the second attempt at the second feed timed out after a request error on
\* the first, while the first feed had given admitted and rejected posts
C25_Witness ==
    /\ pc = "fetched"
    /\ GetOutcomes = <<"error", "timeout">>
    /\ feed_i = 2
    /\ Len(filtered_posts) > 0
    /\ Len(rejected_posts) > 0
    /\ posts = <<>>

\* C27: while the feeds are fetched, filtered_posts and rejected_posts hold
\* disjoint sets of ids, all of them in seen_posts; no rejected post is in the
\* list fetch_feed builds or in new_posts; what new_posts has gathered, with
\* the list of the feed being read, is filtered_posts; and every post handed
\* to apply_filters adds one to len(new_posts) + len(rejected_posts) once its
\* feed is through, so that the sum is the number of posts evaluated.
C27_Fetching == pc \in {"feed", "get", "entries", "fetched"}

C27_Lists ==
    C27_Fetching =>
        /\ IdsOf(filtered_posts) \cap IdsOf(rejected_posts) = {}
        /\ IdsOf(filtered_posts) \cup IdsOf(rejected_posts) \subseteq seen_posts
        /\ \A i \in DOMAIN rejected_posts :
               /\ \A j \in DOMAIN posts : posts[j].id # rejected_posts[i].id
               /\ \A j \in DOMAIN new_posts : new_posts[j].id # rejected_posts[i].id
        /\ new_posts \o posts = filtered_posts
        /\ pc = "feed" => posts = <<>> /\ new_posts = filtered_posts
        /\ run = 1 =>
               Len(new_posts) + Len(posts) + Len(rejected_posts) =
                   Cardinality(DOMAIN evaluated)

C27_Counted ==
    (C27_Fetching /\ C27_Fetching') =>
        Len(new_posts') + Len(posts') + Len(rejected_posts') =
            Len(new_posts) + Len(posts) + Len(rejected_posts) +
            (IF evaluated' # evaluated THEN 1 ELSE 0)

C27_FilteredAndRejectedPartition == []C27_Lists /\ [][C27_Counted]_vars

\* with filters enabled, the feeds are through with posts admitted and posts
\* rejected in a second run that started from the stored ids
C27_Witness ==
    /\ pc = "feed"
    /\ feed_i > Len(feeds)
    /\ FiltersEnabled
    /\ run = 2
    /\ Len(new_posts) >= 1
    /\ Len(rejected_posts) >= 1
    /\ new_posts = filtered_posts

\* C29: send_no_promotions_notification is invoked only in a run with
\* filters enabled in which no post was admitted, with
\* advanced.notify_when_no_results set and at least
\* advanced.no_results_min_posts_analyzed (default 10) posts analysed.
C29_NoPromotionsOnlyWhenNoneAdmitted ==
    Emitted({"send_no_promotions_notification"}) # {} =>
        /\ filtered_posts = <<>>
        /\ FiltersEnabled
        /\ notify_when_no_results(filters_config)
        /\ Len(filtered_posts) + Len(rejected_posts)
               >= no_results_min_posts_analyzed(filters_config)

(***************************************************************************)
(* Properties of the market analysis, checked under SpecAnalysis           *)
(***************************************************************************)
AnalysisReturned == checker_call.at = "returned"

AnalysisFailed == AnalysisReturned /\ "error" \in DOMAIN checker_call.result[1]

\* when the price lookup returns an error, the call returns an error without
\* the trend analysis and without a request to OpenSky
C26_ErrorEndsTheCall ==
    AnalysisFailed =>
        /\ ~checker_call.trend_called
        /\ checker_call.opensky_requests = 0
        /\ checker_call.flight_offer_requests <= 2

\* C26: a call of get_complete_sp_recife_analysis that returns a non-error
\* result has sent exactly 2 flight-offers requests to Amadeus and 1 request
\* to OpenSky, the numbers its api_usage reports; and when the price lookup
\* returns an error the call returns an error without the trend analysis
\* and without a request to OpenSky.
C26_RequestsAsReported ==
    /\ (AnalysisReturned /\ ~AnalysisFailed) =>
           /\ checker_call.flight_offer_requests = 2
           /\ checker_call.opensky_requests = 1
           /\ checker_call.result[1].api_usage.amadeus_requests
                  = checker_call.flight_offer_requests
           /\ checker_call.result[1].api_usage.opensky_requests
                  = checker_call.opensky_requests
    /\ C26_ErrorEndsTheCall

\* C30: in a non-error result, summary.price_rating is the bracket of
\* summary.cheapest_price_brl (at most 300 EXCELENTE, at most 450 BOA, at
\* most 600 REGULAR, above CARA), whatever the price API answers to each
\* request, and never a value outside the four.
C30_RatingOfTheCheapestPrice ==
    (AnalysisReturned /\ ~AnalysisFailed) =>
        /\ checker_call.result[1].summary.price_rating
               = price_rating(checker_call.result[1].summary.cheapest_price_brl)
        /\ checker_call.result[1].summary.price_rating
               \in {"EXCELENTE", "BOA", "REGULAR", "CARA"}

(***************************************************************************)
(* Properties of the text functions, checked under SpecText                *)
(***************************************************************************)
\* C21: a title in which 'rec' and 'pe' occur only inside longer words, and
\* which names neither Recife nor Pernambuco, does not satisfy the Recife
\* indicator of check_keyword_filter, and so does not pass the filter.
C21_ShortTokensAreWordBounded ==
    (Called("check_keyword_filter") /\ last_call.inside_only) =>
        ~last_call.has_recife /\ ~last_call.result

\* the first pattern of extract_price, in list order, that matches a text
FirstPattern(text) ==
    IF \E n \in 1..4 : FirstMatch(n, text) # ""
    THEN Some(CHOOSE n \in 1..4 :
                 /\ FirstMatch(n, text) # ""
                 /\ \A m \in 1..(n - 1) : FirstMatch(m, text) = "")
    ELSE None

\* C22: extract_price returns None for the empty text and for a text no
\* pattern matches; otherwise the first pattern in list order that matches
\* decides, by its first match with '.' removed and ',' read as the decimal
\* point.  'R$ 1.234,56' gives 1234.56, 'a partir de R$ 234,56' gives 234.56,
\* 'no price here' gives None.
C22_FirstPatternFirstMatch ==
    Called("extract_price") =>
        /\ last_call.result = last_call.price
        /\ last_call.text = "" => last_call.result = None
        /\ (last_call.text # "" /\ FirstPattern(last_call.text) = None) =>
               last_call.result = None
        /\ (last_call.text # "" /\ FirstPattern(last_call.text) # None) =>
               last_call.result =
                   Some(ConvertPrice(FirstMatch(FirstPattern(last_call.text)[1],
                                                last_call.text)))

\* the 'reais' pattern matches earlier in the text, the 'R$' pattern decides
C22_Witness ==
    /\ Called("extract_price")
    /\ last_call.text = "120 reais ida, volta R$ 80,50"
    /\ last_call.result = Some(8050)

\* C23: normalize_text applied to its own result returns that result, and
\* normalize_text of the empty string or of None is the empty string.
C23_NormalizeIdempotent ==
    /\ Called("normalize_text") =>
           /\ last_call.again = last_call.result
           /\ last_call.text = "" => last_call.result = ""
    /\ Called("normalize_text(None)") => last_call.result = ""

\* a text with a capital, a precomposed letter and a trailing space
C23_Witness ==
    /\ Called("normalize_text")
    /\ last_call.text = "Rã "
    /\ last_call.result = "ra"
    /\ last_call.again = "ra"

====
